---- MODULE Spec2Model ----
(***************************************************************************)
(* File difference analyzer: the word-set comparator (FileDiffAnalyzer)    *)
(* and the universal analysis orchestrator (UniversalFileDiffAnalyzer).    *)
(*                                                                         *)
(* A Python str is a sequence of one-character strings; a text keeps its   *)
(* "\n" characters, so split('\n'), split(), strip() and join() are        *)
(* computed character by character as the library computes them.           *)
(* A percentage is kept exactly, as a fraction [num, den] of naturals, and *)
(* a rounded percentage (round(x, 2)) as an integer number of hundredths:  *)
(* 3333 is 33.33.  The configured tolerance is a number of hundredths too. *)
(***************************************************************************)
EXTENDS Integers, Sequences, FiniteSets, TLC

(***************************************************************************)
(* Characters and the str methods the analyzers use                        *)
(***************************************************************************)

\* str.lower() on one character: the cased letters of the model's alphabet.
LowerMap ==
  [A |-> "a", B |-> "b", C |-> "c", D |-> "d", E |-> "e", F |-> "f",
   G |-> "g", H |-> "h", I |-> "i", J |-> "j", K |-> "k", L |-> "l",
   M |-> "m", N |-> "n", O |-> "o", P |-> "p", Q |-> "q", R |-> "r",
   S |-> "s", T |-> "t", U |-> "u", V |-> "v", W |-> "w", X |-> "x",
   Y |-> "y", Z |-> "z"]

UpperLetters ==
  {"A", "B", "C", "D", "E", "F", "G", "H", "I", "J", "K", "L", "M", "N", "O",
   "P", "Q", "R", "S", "T", "U", "V", "W", "X", "Y", "Z"}

LowerLetters ==
  {"a", "b", "c", "d", "e", "f", "g", "h", "i", "j", "k", "l", "m", "n", "o",
   "p", "q", "r", "s", "t", "u", "v", "w", "x", "y", "z"}

Digits == {"0", "1", "2", "3", "4", "5", "6", "7", "8", "9"}

\* \s of the re module and the whitespace of str.split() / str.strip().
IsSpace(c) == c \in {" ", "\n", "\t"}

\* \w of the re module.
IsWordChar(c) == c \in UpperLetters \cup LowerLetters \cup Digits \cup {"_"}

LowerChar(c) == IF c \in UpperLetters THEN LowerMap[c] ELSE c

\* text.lower()
Lower(s) == [i \in 1..Len(s) |-> LowerChar(s[i])]

RECURSIVE LStrip(_)
LStrip(s) ==
  IF s = <<>> THEN s
  ELSE IF IsSpace(Head(s)) THEN LStrip(Tail(s)) ELSE s

RECURSIVE RStrip(_)
RStrip(s) ==
  IF s = <<>> THEN s
  ELSE IF IsSpace(s[Len(s)]) THEN RStrip(SubSeq(s, 1, Len(s) - 1)) ELSE s

\* line.strip()
Strip(s) == RStrip(LStrip(s))

\* Length of the longest prefix of s whose characters all satisfy ~IsSpace.
RECURSIVE WordLen(_)
WordLen(s) ==
  IF s = <<>> \/ IsSpace(Head(s)) THEN 0 ELSE 1 + WordLen(Tail(s))

\* text.split(): the maximal runs of non-whitespace characters, in order.
RECURSIVE SplitWS(_)
SplitWS(s) ==
  LET t == LStrip(s)
      n == WordLen(t)
  IN IF t = <<>> THEN <<>>
     ELSE <<SubSeq(t, 1, n)>> \o SplitWS(SubSeq(t, n + 1, Len(t)))

\* Length of the longest prefix of s without a newline.
RECURSIVE LineLen(_)
LineLen(s) ==
  IF s = <<>> \/ Head(s) = "\n" THEN 0 ELSE 1 + LineLen(Tail(s))

\* text.split('\n'): one more piece than there are newlines.
RECURSIVE SplitNL(_)
SplitNL(s) ==
  LET n == LineLen(s)
  IN IF n = Len(s) THEN <<s>>
     ELSE <<SubSeq(s, 1, n)>> \o SplitNL(SubSeq(s, n + 2, Len(s)))

\* '\n'.join(lines)
RECURSIVE JoinNL(_)
JoinNL(lines) ==
  IF lines = <<>> THEN <<>>
  ELSE IF Len(lines) = 1 THEN lines[1]
  ELSE lines[1] \o <<"\n">> \o JoinNL(Tail(lines))

\* The concatenation of a sequence of sequences.
RECURSIVE Concat(_)
Concat(ss) == IF ss = <<>> THEN <<>> ELSE Head(ss) \o Concat(Tail(ss))

\* set(seq)
Range(seq) == {seq[i] : i \in 1..Len(seq)}

\* A local variable: Body with the value assigned to the variable.
Bind(value, Body(_)) == Body(value)

(***************************************************************************)
(* Exact percentages and round(x, 2)                                       *)
(***************************************************************************)

\* The percentage num/den, den > 0, kept exactly.
Frac(n, d) == [num |-> n, den |-> d]

\* round(x, 2) as a number of hundredths: the nearest one, a tie going to the
\* even neighbour (Python's round on the exact value).
Round2(f) ==
  LET q == (f.num * 100) \div f.den
      r == (f.num * 100) % f.den
  IN IF 2 * r > f.den THEN q + 1
     ELSE IF 2 * r < f.den THEN q
     ELSE IF q % 2 = 0 THEN q ELSE q + 1

\* x > tolerance, the tolerance given in hundredths.
ExceedsTolerance(f, tol) == f.num * 100 > tol * f.den

(***************************************************************************)
(* Data model (models.py)                                                  *)
(***************************************************************************)

FileType == {"pdf", "docx", "excel", "csv", "txt", "text_segment"}

\* FileInfo: the fields the analyzers read.  name, word_count, line_count and
\* size_bytes are derived labels no analysis reads.
FileInfo(ftype, text) == [file_type |-> ftype, content |-> text]

\* AnalysisConfig: the fields the analyzers read.
AnalysisConfig(tol, cs, iw) ==
  [tolerance_percentage |-> tol, case_sensitive |-> cs, ignore_whitespace |-> iw]

(***************************************************************************)
(* Word-set comparator (analyzer.py)                                       *)
(***************************************************************************)

\* re.sub(r'[^\w\s]', '', word)
clean_word(word) == SelectSeq(word, LAMBDA c : IsWordChar(c) \/ IsSpace(c))

\* [line.strip() for line in lines if line.strip()]
non_empty_lines(lines) ==
  LET kept == SelectSeq(lines, LAMBDA l : Strip(l) # <<>>)
  IN [i \in 1..Len(kept) |-> Strip(kept[i])]

\* _extract_words joining the lines it keeps without a separator.
extract_words_joined(text, normalize_structure, cfg) ==
  IF text = <<>> THEN {}
  ELSE
    Bind(IF ~cfg.case_sensitive THEN Lower(text) ELSE text, LAMBDA cased :
    Bind(IF normalize_structure
         THEN Concat(non_empty_lines(SplitNL(cased)))
         ELSE cased, LAMBDA normalized_text :
    Bind(IF cfg.ignore_whitespace
         THEN SplitWS(normalized_text)
         ELSE Bind(SplitNL(normalized_text), LAMBDA by_line :
                Concat([i \in 1..Len(by_line) |-> SplitWS(by_line[i])])),
         LAMBDA words :
      {clean_word(words[i]) : i \in 1..Len(words)} \ {<<>>})))

\* FileDiffAnalyzer._extract_words
extract_words(text, normalize_structure, cfg) ==
  IF text = <<>> THEN {}
  ELSE
    Bind(IF ~cfg.case_sensitive THEN Lower(text) ELSE text, LAMBDA cased :
    Bind(IF normalize_structure
         THEN JoinNL(non_empty_lines(SplitNL(cased)))
         ELSE cased, LAMBDA normalized_text :
    Bind(IF cfg.ignore_whitespace
         THEN SplitWS(normalized_text)
         ELSE Bind(SplitNL(normalized_text), LAMBDA by_line :
                Concat([i \in 1..Len(by_line) |-> SplitWS(by_line[i])])),
         LAMBDA words :
      {clean_word(words[i]) : i \in 1..Len(words)} \ {<<>>})))

\* compare_counts with the factor 2 of the similarity left out.
compare_counts_half(n_common, n_unique1, n_unique2, n_words1, n_words2, cfg) ==
  LET total_words == n_words1 + n_words2
      similarity_percentage ==
        IF total_words = 0 THEN Frac(100, 1)
        ELSE Frac(n_common * 100, total_words)
      difference_percentage ==
        IF total_words = 0 THEN Frac(0, 1)
        ELSE Frac((n_unique1 + n_unique2) * 100, total_words)
  IN [similarity_percentage |-> Round2(similarity_percentage),
      difference_percentage |-> Round2(difference_percentage),
      common_words |-> n_common,
      unique_words_file1 |-> n_unique1,
      unique_words_file2 |-> n_unique2,
      is_significantly_different |->
        ExceedsTolerance(difference_percentage, cfg.tolerance_percentage)]

\* compare_counts with the total taken from the first document alone.
compare_counts_first(n_common, n_unique1, n_unique2, n_words1, n_words2, cfg) ==
  LET total_words == n_words1 * 2
      similarity_percentage ==
        IF total_words = 0 THEN Frac(100, 1)
        ELSE Frac(n_common * 2 * 100, total_words)
      difference_percentage ==
        IF total_words = 0 THEN Frac(0, 1)
        ELSE Frac((n_unique1 + n_unique2) * 100, total_words)
  IN [similarity_percentage |-> Round2(similarity_percentage),
      difference_percentage |-> Round2(difference_percentage),
      common_words |-> n_common,
      unique_words_file1 |-> n_unique1,
      unique_words_file2 |-> n_unique2,
      is_significantly_different |->
        ExceedsTolerance(difference_percentage, cfg.tolerance_percentage)]

\* compare_counts reporting two empty word sets as wholly different.
compare_counts_empty(n_common, n_unique1, n_unique2, n_words1, n_words2, cfg) ==
  LET total_words == n_words1 + n_words2
      similarity_percentage ==
        IF total_words = 0 THEN Frac(0, 1)
        ELSE Frac(n_common * 2 * 100, total_words)
      difference_percentage ==
        IF total_words = 0 THEN Frac(100, 1)
        ELSE Frac((n_unique1 + n_unique2) * 100, total_words)
  IN [similarity_percentage |-> Round2(similarity_percentage),
      difference_percentage |-> Round2(difference_percentage),
      common_words |-> n_common,
      unique_words_file1 |-> n_unique1,
      unique_words_file2 |-> n_unique2,
      is_significantly_different |->
        ExceedsTolerance(difference_percentage, cfg.tolerance_percentage)]

\* FileDiffAnalyzer._compare_files, from the percentages on: the arguments
\* are len(common_words), len(unique_words_file1), len(unique_words_file2),
\* len(words1) and len(words2).
compare_counts(n_common, n_unique1, n_unique2, n_words1, n_words2, cfg) ==
  LET total_unique_words == n_unique1 + n_unique2
      total_words == n_words1 + n_words2
      similarity_percentage ==
        IF total_words = 0 THEN Frac(100, 1)
        ELSE Frac(n_common * 2 * 100, total_words)
      difference_percentage ==
        IF total_words = 0 THEN Frac(0, 1)
        ELSE Frac(total_unique_words * 100, total_words)
  IN [similarity_percentage |-> Round2(similarity_percentage),
      difference_percentage |-> Round2(difference_percentage),
      common_words |-> n_common,
      unique_words_file1 |-> n_unique1,
      unique_words_file2 |-> n_unique2,
      is_significantly_different |->
        ExceedsTolerance(difference_percentage, cfg.tolerance_percentage)]

\* FileDiffAnalyzer._compare_files
compare_files(file1, file2, cfg) ==
  LET has_pdf == file1.file_type = "pdf" \/ file2.file_type = "pdf"
  IN Bind(extract_words(file1.content,
                        has_pdf /\ file1.file_type # "pdf", cfg),
          LAMBDA words1 :
     Bind(extract_words(file2.content,
                        has_pdf /\ file2.file_type # "pdf", cfg),
          LAMBDA words2 :
       LET common_words == words1 \cap words2
           unique_words_file1 == words1 \ words2
           unique_words_file2 == words2 \ words1
       IN compare_counts(Cardinality(common_words),
                         Cardinality(unique_words_file1),
                         Cardinality(unique_words_file2),
                         Cardinality(words1), Cardinality(words2), cfg)))

\* inner_loop stopping after its first index.
inner_loop_once(i, j, n) == IF j > n THEN <<>> ELSE <<<<i, j>>>>

\* The inner loop of analyze: for j in range(i + 1, len(files)), 1-based.
RECURSIVE inner_loop(_, _, _)
inner_loop(i, j, n) ==
  IF j > n THEN <<>> ELSE <<<<i, j>>>> \o inner_loop(i, j + 1, n)

\* The outer loop of analyze: for i in range(len(files)), 1-based.  The
\* result lists the index pairs in the order _compare_files is called on them.
RECURSIVE outer_loop(_, _)
outer_loop(i, n) ==
  IF i > n THEN <<>> ELSE inner_loop(i, i + 1, n) \o outer_loop(i + 1, n)

\* FileDiffAnalyzer.analyze: raised is the exception ("none" on a return),
\* calls the index pairs compared, value the ComparisonResult (its files
\* field is the registered list itself and its timestamp the wall clock).
\* steps is empty: analyze aligns no lines.
analyze(fs, cfg) ==
  IF Len(fs) < 2
  THEN [raised |-> "ValueError", calls |-> <<>>, steps |-> <<>>, value |-> <<>>]
  ELSE
    LET pairs == outer_loop(1, Len(fs))
    IN [raised |-> "none",
        calls |-> pairs,
        steps |-> <<>>,
        value |->
          [comparison_matrix |->
             [k \in 1..Len(pairs) |->
                compare_files(fs[pairs[k][1]], fs[pairs[k][2]], cfg)],
           tolerance_threshold |-> cfg.tolerance_percentage]]

(***************************************************************************)
(* Line alignment: difflib.SequenceMatcher(None, a, b, autojunk=False), as *)
(* _detailed_line_analysis uses it.  No element is junk.  Indices are      *)
(* Python's: a[i] is the model's a[i + 1], and ranges are half-open.       *)
(***************************************************************************)

\* The length of the longest common run of a[alo:] and b[blo:] that ends
\* at a[i] and b[j]: j2len[j] in row i of find_longest_match.
RECURSIVE run_length(_, _, _, _, _, _)
run_length(a, b, i, j, alo, blo) ==
  IF i < alo \/ j < blo THEN 0
  ELSE IF a[i + 1] # b[j + 1] THEN 0
  ELSE 1 + run_length(a, b, i - 1, j - 1, alo, blo)

Max(S) == CHOOSE x \in S : \A y \in S : y <= x

Min(S) == CHOOSE x \in S : \A y \in S : x <= y

\* SequenceMatcher.find_longest_match(alo, ahi, blo, bhi): the rows i are
\* scanned upwards and in a row the columns j upwards, and a run replaces
\* the best one only when strictly longer, so the result is the longest
\* run that ends first in a and, among those, first in b.
find_longest_match(a, b, alo, ahi, blo, bhi) ==
  LET ends == (alo..(ahi - 1)) \X (blo..(bhi - 1))
      size(e) == run_length(a, b, e[1], e[2], alo, blo)
      bestsize == Max({0} \cup {size(e) : e \in ends})
  IN IF bestsize = 0 THEN <<alo, blo, 0>>
     ELSE
       LET i == Min({e[1] : e \in {x \in ends : size(x) = bestsize}})
           j == Min({e[2] : e \in {x \in ends : x[1] = i /\ size(x) = bestsize}})
       IN <<i - bestsize + 1, j - bestsize + 1, bestsize>>

\* The recursion of get_matching_blocks over a[alo:ahi] and b[blo:bhi]: the
\* longest match, then the pieces left and right of it; listed in the
\* order of the final sort.
RECURSIVE matching_blocks_in(_, _, _, _, _, _)
matching_blocks_in(a, b, alo, ahi, blo, bhi) ==
  Bind(find_longest_match(a, b, alo, ahi, blo, bhi), LAMBDA x :
    LET i == x[1]
        j == x[2]
        k == x[3]
    IN IF k = 0 THEN <<>>
       ELSE (IF alo < i /\ blo < j
             THEN matching_blocks_in(a, b, alo, i, blo, j) ELSE <<>>)
            \o <<x>>
            \o (IF i + k < ahi /\ j + k < bhi
                THEN matching_blocks_in(a, b, i + k, ahi, j + k, bhi)
                ELSE <<>>))

\* The loop of get_matching_blocks that merges adjacent blocks; cur is
\* (i1, j1, k1).
RECURSIVE collapse_adjacent(_, _)
collapse_adjacent(blocks, cur) ==
  IF blocks = <<>>
  THEN IF cur[3] # 0 THEN <<cur>> ELSE <<>>
  ELSE
    LET nxt == Head(blocks)
    IN IF cur[1] + cur[3] = nxt[1] /\ cur[2] + cur[3] = nxt[2]
       THEN collapse_adjacent(Tail(blocks), <<cur[1], cur[2], cur[3] + nxt[3]>>)
       ELSE (IF cur[3] # 0 THEN <<cur>> ELSE <<>>)
            \o collapse_adjacent(Tail(blocks), nxt)

\* SequenceMatcher.get_matching_blocks, the closing (len(a), len(b), 0)
\* included.
get_matching_blocks(a, b) ==
  collapse_adjacent(matching_blocks_in(a, b, 0, Len(a), 0, Len(b)), <<0, 0, 0>>)
  \o <<<<Len(a), Len(b), 0>>>>

Opcode(t, a1, a2, b1, b2) == [tag |-> t, i1 |-> a1, i2 |-> a2, j1 |-> b1, j2 |-> b2]

\* The loop of get_opcodes without its equal opcodes.
RECURSIVE opcodes_from_noequal(_, _, _)
opcodes_from_noequal(blocks, i, j) ==
  IF blocks = <<>> THEN <<>>
  ELSE
    LET ai == Head(blocks)[1]
        bj == Head(blocks)[2]
        size == Head(blocks)[3]
        tag == IF i < ai /\ j < bj THEN "replace"
               ELSE IF i < ai THEN "delete"
               ELSE IF j < bj THEN "insert"
               ELSE ""
    IN (IF tag # "" THEN <<Opcode(tag, i, ai, j, bj)>> ELSE <<>>)
       \o opcodes_from_noequal(Tail(blocks), ai + size, bj + size)

\* The loop of get_opcodes from position (i, j) over the blocks left.
RECURSIVE opcodes_from(_, _, _)
opcodes_from(blocks, i, j) ==
  IF blocks = <<>> THEN <<>>
  ELSE
    LET ai == Head(blocks)[1]
        bj == Head(blocks)[2]
        size == Head(blocks)[3]
        tag == IF i < ai /\ j < bj THEN "replace"
               ELSE IF i < ai THEN "delete"
               ELSE IF j < bj THEN "insert"
               ELSE ""
    IN (IF tag # "" THEN <<Opcode(tag, i, ai, j, bj)>> ELSE <<>>)
       \o (IF size # 0 THEN <<Opcode("equal", ai, ai + size, bj, bj + size)>>
           ELSE <<>>)
       \o opcodes_from(Tail(blocks), ai + size, bj + size)

\* SequenceMatcher.get_opcodes
get_opcodes(a, b) == opcodes_from(get_matching_blocks(a, b), 0, 0)

(***************************************************************************)
(* Strings in the records of the universal analyzer                        *)
(***************************************************************************)

\* The ASCII characters from the tab to the tilde in code point order (the
\* double quote, the backslash and the backtick left out): the order
\* sorted() puts strings in.
AsciiOrder ==
  <<"\t", "\n", " ", "!", "#", "$", "%", "&", "'", "(", ")", "*", "+",
    ",", "-", ".", "/", "0", "1", "2", "3", "4", "5", "6", "7", "8", "9", ":",
    ";", "<", "=", ">", "?", "@", "A", "B", "C", "D", "E", "F", "G", "H", "I",
    "J", "K", "L", "M", "N", "O", "P", "Q", "R", "S", "T", "U", "V", "W", "X",
    "Y", "Z", "[", "]", "^", "_", "a", "b", "c", "d", "e", "f", "g",
    "h", "i", "j", "k", "l", "m", "n", "o", "p", "q", "r", "s", "t", "u", "v",
    "w", "x", "y", "z", "{", "|", "}", "~">>

Ord(c) == CHOOSE i \in 1..Len(AsciiOrder) : AsciiOrder[i] = c

\* u < v for two str.
RECURSIVE StrLess(_, _)
StrLess(u, v) ==
  IF v = <<>> THEN FALSE
  ELSE IF u = <<>> THEN TRUE
  ELSE IF Head(u) = Head(v) THEN StrLess(Tail(u), Tail(v))
  ELSE Ord(Head(u)) < Ord(Head(v))

\* sorted(S) for a set of str.
RECURSIVE Sorted(_)
Sorted(S) ==
  IF S = {} THEN <<>>
  ELSE Bind(CHOOSE x \in S : \A y \in S : x = y \/ StrLess(x, y), LAMBDA m :
         <<m>> \o Sorted(S \ {m}))

\* ", ".join(strs)
RECURSIVE JoinComma(_)
JoinComma(strs) ==
  IF strs = <<>> THEN <<>>
  ELSE IF Len(strs) = 1 THEN strs[1]
  ELSE strs[1] \o <<",", " ">> \o JoinComma(Tail(strs))

DigitChars == <<"0", "1", "2", "3", "4", "5", "6", "7", "8", "9">>

\* str(n) for n >= 0.
RECURSIVE Decimal(_)
Decimal(n) ==
  IF n < 10 THEN <<DigitChars[n + 1]>>
  ELSE Decimal(n \div 10) \o <<DigitChars[(n % 10) + 1]>>

\* An f-string: its literal pieces as strings, the values put into it as
\* sequences of characters, in order.
FString(pieces) == pieces

(***************************************************************************)
(* Pattern library (universal_analyzer.py, self.patterns)                  *)
(***************************************************************************)

\* \b at offset p of s, 0 <= p <= len(s): exactly one of s[p-1], s[p] is \w.
IsBoundary(s, p) ==
  (p >= 1 /\ IsWordChar(s[p])) # (p < Len(s) /\ IsWordChar(s[p + 1]))

\* The number of digits of s from offset p on.
RECURSIVE DigitRun(_, _)
DigitRun(s, p) ==
  IF p < Len(s) /\ s[p + 1] \in Digits THEN 1 + DigitRun(s, p + 1) ELSE 0

\* The end of the match of \b\d+(?:\.\d+)?\b at offset p of s, or -1.  \d+
\* takes the whole run of digits (a shorter one ends between two digits,
\* where neither "." nor \b matches); the fraction is kept if \b holds after
\* it and given up otherwise.
match_number(s, p) ==
  IF ~IsBoundary(s, p) THEN -1
  ELSE
    Bind(DigitRun(s, p), LAMBDA n :
    Bind(IF p + n < Len(s) /\ s[p + n + 1] = "."
         THEN DigitRun(s, p + n + 1) ELSE 0, LAMBDA m :
      LET q == p + n
      IN IF n = 0 THEN -1
         ELSE IF m > 0 /\ IsBoundary(s, q + 1 + m) THEN q + 1 + m
         ELSE IF IsBoundary(s, q) THEN q
         ELSE -1))

\* The number of characters of s from offset p on that are in chars.
RECURSIVE RunIn(_, _, _)
RunIn(s, p, chars) ==
  IF p < Len(s) /\ s[p + 1] \in chars THEN 1 + RunIn(s, p + 1, chars) ELSE 0

\* word is at offset p of s.
ExactAt(s, p, word) ==
  p + Len(word) <= Len(s) /\ SubSeq(s, p + 1, p + Len(word)) = word

\* The lower-case word is at offset p of s, the case ignored (re.IGNORECASE).
MatchesAt(s, p, word) ==
  p + Len(word) <= Len(s) /\ Lower(SubSeq(s, p + 1, p + Len(word))) = word

SpaceChars == {" ", "\n", "\t"}

WordChars == UpperLetters \cup LowerLetters \cup Digits \cup {"_"}

\* (?:v|version|rev|revision)? of the versions pattern: the alternatives in
\* the order they are tried, the empty one last.
VersionPrefixes ==
  <<<<"v">>,
    <<"v", "e", "r", "s", "i", "o", "n">>,
    <<"r", "e", "v">>,
    <<"r", "e", "v", "i", "s", "i", "o", "n">>,
    <<>>>>

\* [a-zA-Z0-9-]
VersionTailChars == UpperLetters \cup LowerLetters \cup Digits \cup {"-"}

\* [a-zA-Z0-9-]*\b from offset q, at most k characters taken: the longest
\* tail first, then each shorter one, until \b holds after it.
RECURSIVE version_tail(_, _, _)
version_tail(s, q, k) ==
  IF IsBoundary(s, q + k) THEN q + k
  ELSE IF k = 0 THEN -1
  ELSE version_tail(s, q, k - 1)

\* (?:\.\d+)*(?:[a-zA-Z0-9-]*)\b from offset q: one more group if the rest
\* can match after it, else the tail.  version_digits is \d+ with at most m
\* digits followed by that: the longest run first.
RECURSIVE version_groups(_, _)
RECURSIVE version_digits(_, _, _)
version_groups(s, q) ==
  Bind(IF q < Len(s) /\ s[q + 1] = "."
       THEN version_digits(s, q + 1, DigitRun(s, q + 1))
       ELSE -1, LAMBDA e :
    IF e # -1 THEN e
    ELSE version_tail(s, q, RunIn(s, q, VersionTailChars)))

version_digits(s, q, m) ==
  IF m = 0 THEN -1
  ELSE Bind(version_groups(s, q + m), LAMBDA e :
         IF e # -1 THEN e ELSE version_digits(s, q, m - 1))

\* \s*\d+(?:\.\d+)*(?:[a-zA-Z0-9-]*)\b from offset q.  \s* takes the whole
\* run of whitespace: \d+ cannot start at a whitespace character.
version_number(s, q) ==
  Bind(q + RunIn(s, q, SpaceChars), LAMBDA d :
    version_digits(s, d, DigitRun(s, d)))

\* The versions pattern at offset p from the k-th prefix alternative on.
RECURSIVE version_prefixed(_, _, _)
version_prefixed(s, p, k) ==
  IF k > Len(VersionPrefixes) THEN -1
  ELSE Bind(IF MatchesAt(s, p, VersionPrefixes[k])
            THEN version_number(s, p + Len(VersionPrefixes[k]))
            ELSE -1, LAMBDA e :
         IF e # -1 THEN e ELSE version_prefixed(s, p, k + 1))

\* The end of the match of the versions pattern at offset p of s, or -1.
match_version(s, p) ==
  IF ~IsBoundary(s, p) THEN -1 ELSE version_prefixed(s, p, 1)

\* (?:Jan|Feb|...|Dec) of the dates pattern.
Months ==
  {<<"j", "a", "n">>, <<"f", "e", "b">>, <<"m", "a", "r">>, <<"a", "p", "r">>,
   <<"m", "a", "y">>, <<"j", "u", "n">>, <<"j", "u", "l">>, <<"a", "u", "g">>,
   <<"s", "e", "p">>, <<"o", "c", "t">>, <<"n", "o", "v">>, <<"d", "e", "c">>}

\* \d{1,4}[-/]\d{1,2}[-/]\d{1,4}\b at offset p.  Each \d{m,n} is followed
\* by what no digit matches, so it takes the whole run of digits or the
\* alternative fails.
match_numeric_date(s, p) ==
  Bind(DigitRun(s, p), LAMBDA a :
  Bind(DigitRun(s, p + a + 1), LAMBDA b :
  Bind(DigitRun(s, p + a + 1 + b + 1), LAMBDA c :
    IF /\ a \in 1..4
       /\ p + a < Len(s) /\ s[p + a + 1] \in {"-", "/"}
       /\ b \in 1..2
       /\ p + a + 1 + b < Len(s) /\ s[p + a + 1 + b + 1] \in {"-", "/"}
       /\ c \in 1..4
       /\ IsBoundary(s, p + a + 1 + b + 1 + c)
    THEN p + a + 1 + b + 1 + c
    ELSE -1)))

\* \d{1,2}\s+(?:Jan|...|Dec)\s+\d{4}\b at offset p.
match_month_date(s, p) ==
  Bind(DigitRun(s, p), LAMBDA a :
  Bind(RunIn(s, p + a, SpaceChars), LAMBDA w1 :
  Bind(RunIn(s, p + a + w1 + 3, SpaceChars), LAMBDA w2 :
  Bind(DigitRun(s, p + a + w1 + 3 + w2), LAMBDA y :
    IF /\ a \in 1..2
       /\ w1 >= 1
       /\ \E m \in Months : MatchesAt(s, p + a + w1, m)
       /\ w2 >= 1
       /\ y = 4
       /\ IsBoundary(s, p + a + w1 + 3 + w2 + 4)
    THEN p + a + w1 + 3 + w2 + 4
    ELSE -1))))

\* The end of the match of the dates pattern at offset p of s, or -1: the
\* numeric alternative first.
match_date(s, p) ==
  IF ~IsBoundary(s, p) THEN -1
  ELSE Bind(match_numeric_date(s, p), LAMBDA e :
         IF e # -1 THEN e ELSE match_month_date(s, p))

\* [A-Za-z0-9._%+-], [A-Za-z0-9.-] and [A-Z|a-z] of the emails pattern.
EmailLocalChars ==
  UpperLetters \cup LowerLetters \cup Digits \cup {".", "_", "%", "+", "-"}

EmailDomainChars == UpperLetters \cup LowerLetters \cup Digits \cup {".", "-"}

EmailTldChars == UpperLetters \cup LowerLetters \cup {"|"}

\* [A-Z|a-z]{2,}\b from offset q, at most t characters taken: the longest
\* first.
RECURSIVE email_tld(_, _, _)
email_tld(s, q, t) ==
  IF t < 2 THEN -1
  ELSE IF IsBoundary(s, q + t) THEN q + t
  ELSE email_tld(s, q, t - 1)

\* [A-Za-z0-9.-]+\.[A-Z|a-z]{2,}\b from offset q, at most d characters taken
\* for the domain: the longest first.
RECURSIVE email_domain(_, _, _)
email_domain(s, q, d) ==
  IF d = 0 THEN -1
  ELSE Bind(IF q + d < Len(s) /\ s[q + d + 1] = "."
            THEN email_tld(s, q + d + 1, RunIn(s, q + d + 1, EmailTldChars))
            ELSE -1, LAMBDA e :
         IF e # -1 THEN e ELSE email_domain(s, q, d - 1))

\* The end of the match of the emails pattern at offset p of s, or -1.  The
\* local part takes its whole run: "@" is not one of its characters.
match_email(s, p) ==
  IF ~IsBoundary(s, p) THEN -1
  ELSE Bind(RunIn(s, p, EmailLocalChars), LAMBDA l :
         IF l >= 1 /\ p + l < Len(s) /\ s[p + l + 1] = "@"
         THEN email_domain(s, p + l + 1, RunIn(s, p + l + 1, EmailDomainChars))
         ELSE -1)

\* [-\w.], [:\d], [\w/_.], [\w&=%.] and [\w.] of the urls pattern.
UrlHostChars == WordChars \cup {"-", "."}

UrlPortChars == Digits \cup {":"}

UrlPathChars == WordChars \cup {"/", "."}

UrlQueryChars == WordChars \cup {"&", "=", "%", "."}

UrlFragmentChars == WordChars \cup {"."}

\* (?:X(?:chars)*)? at offset q: the end of the part that starts with the
\* character X, q itself when X is not there.
url_part(s, q, X, chars) ==
  IF q < Len(s) /\ s[q + 1] = X THEN q + 1 + RunIn(s, q + 1, chars) ELSE q

\* The end of the match of the urls pattern at offset p of s, or -1.  After
\* the host every part is optional and takes all it can.
match_url(s, p) ==
  Bind(IF ExactAt(s, p, <<"h", "t", "t", "p", "s", ":", "/", "/">>) THEN p + 8
       ELSE IF ExactAt(s, p, <<"h", "t", "t", "p", ":", "/", "/">>) THEN p + 7
       ELSE -1, LAMBDA h :
    IF h = -1 \/ RunIn(s, h, UrlHostChars) = 0 THEN -1
    ELSE
      Bind(h + RunIn(s, h, UrlHostChars), LAMBDA host :
      Bind(host + RunIn(s, host, UrlPortChars), LAMBDA port :
        IF port < Len(s) /\ s[port + 1] = "/"
        THEN url_part(s,
                      url_part(s,
                               port + 1 + RunIn(s, port + 1, UrlPathChars),
                               "?", UrlQueryChars),
                      "#", UrlFragmentChars)
        ELSE port)))

\* self.patterns[name] at offset p of s: the end of its match, or -1.
match_pattern(name, s, p) ==
  CASE name = "numbers" -> match_number(s, p)
    [] name = "versions" -> match_version(s, p)
    [] name = "dates" -> match_date(s, p)
    [] name = "urls" -> match_url(s, p)
    [] name = "emails" -> match_email(s, p)

\* self.patterns[name].findall(s) from offset p on: the matches left to
\* right, the search resuming where a match ended.
RECURSIVE findall_from(_, _, _)
findall_from(name, s, p) ==
  IF p >= Len(s) THEN <<>>
  ELSE
    Bind(match_pattern(name, s, p), LAMBDA e :
      IF e = -1 THEN findall_from(name, s, p + 1)
      ELSE <<SubSeq(s, p + 1, e)>> \o findall_from(name, s, e))

\* self.patterns[name].findall(s)
findall(name, s) == findall_from(name, s, 0)

(***************************************************************************)
(* Change classifier (universal_analyzer.py)                               *)
(***************************************************************************)

\* None
None == [type |-> "None"]

\* The digits of s as a natural number: int(s) for a str of digits.
RECURSIVE DigitsValue(_)
DigitsValue(s) ==
  IF s = <<>> THEN 0
  ELSE DigitsValue(SubSeq(s, 1, Len(s) - 1)) * 10 + (Ord(s[Len(s)]) - Ord("0"))

RECURSIVE Pow10(_)
Pow10(n) == IF n = 0 THEN 1 ELSE 10 * Pow10(n - 1)

\* float(s) for a match of the numbers pattern, kept exactly as
\* num / scale: "1.50" is 150 / 100.  The double that float() returns is
\* this value up to rounding, which decides a comparison only when the
\* relative change is at a bound: from "1.0" to "1.1" the code computes
\* 0.10000000000000009 > 0.1.  The inputs hold no such pair.
float_of(s) ==
  Bind(DigitRun(s, 0), LAMBDA n :
    LET frac == IF n < Len(s) THEN SubSeq(s, n + 2, Len(s)) ELSE <<>>
    IN [num |-> DigitsValue(SubSeq(s, 1, n) \o frac),
        scale |-> Pow10(Len(frac))])

Abs(x) == IF x < 0 THEN -x ELSE x

\* abs((new - old) / old) > bound_num / bound_den for old # 0, and
\* float('inf') > bound for old = 0.
change_exceeds(old, new, bound_num, bound_den) ==
  IF old.num = 0 THEN TRUE
  ELSE Abs(new.num * old.scale - old.num * new.scale) * bound_den
         > bound_num * old.num * new.scale

\* UniversalFileDiffAnalyzer._assess_numeric_impact; the values are matches
\* of the numbers pattern, which float() always parses, and max() of no
\* values raises the ValueError that is caught.
assess_numeric_impact(old_numbers, new_numbers) ==
  Bind([i \in 1..Len(old_numbers) |-> float_of(old_numbers[i])],
       LAMBDA old_vals :
  Bind([i \in 1..Len(new_numbers) |-> float_of(new_numbers[i])],
       LAMBDA new_vals :
    IF Len(old_vals) # Len(new_vals) THEN "moderate"
    ELSE IF Len(old_vals) = 0 THEN "moderate"
    ELSE IF \E i \in 1..Len(old_vals) :
              change_exceeds(old_vals[i], new_vals[i], 1, 1) THEN "major"
    ELSE IF \E i \in 1..Len(old_vals) :
              change_exceeds(old_vals[i], new_vals[i], 1, 10) THEN "moderate"
    ELSE "minor"))

\* _create_numeric_change with only the old numbers in its description.
create_numeric_change_old_only(old_line, new_line, old_numbers, new_numbers) ==
  [type |-> "numeric_change",
   description |-> FString(<<"Numeric value changed from ",
                             JoinComma(old_numbers)>>),
   old_content |-> old_line,
   new_content |-> new_line,
   old_values |-> old_numbers,
   new_values |-> new_numbers,
   impact |-> assess_numeric_impact(old_numbers, new_numbers),
   change_category |-> "data_modification"]

\* UniversalFileDiffAnalyzer._create_numeric_change
create_numeric_change(old_line, new_line, old_numbers, new_numbers) ==
  [type |-> "numeric_change",
   description |-> FString(<<"Numeric value changed from ",
                             JoinComma(old_numbers), " to ",
                             JoinComma(new_numbers)>>),
   old_content |-> old_line,
   new_content |-> new_line,
   old_values |-> old_numbers,
   new_values |-> new_numbers,
   impact |-> assess_numeric_impact(old_numbers, new_numbers),
   change_category |-> "data_modification"]

\* old.replace(word, ''): every occurrence of word cut out, left to right.
RECURSIVE Remove(_, _)
Remove(s, word) ==
  IF s = <<>> THEN <<>>
  ELSE IF ExactAt(s, 0, word)
  THEN Remove(SubSeq(s, Len(word) + 1, Len(s)), word)
  ELSE <<Head(s)>> \o Remove(Tail(s), word)

\* Length of the longest prefix of s without a ".".
RECURSIVE PartLen(_)
PartLen(s) ==
  IF s = <<>> \/ Head(s) = "." THEN 0 ELSE 1 + PartLen(Tail(s))

\* s.split('.')
RECURSIVE SplitDot(_)
SplitDot(s) ==
  Bind(PartLen(s), LAMBDA n :
    IF n = Len(s) THEN <<s>>
    ELSE <<SubSeq(s, 1, n)>> \o SplitDot(SubSeq(s, n + 2, Len(s))))

\* s.isdigit()
IsDigit(s) == s # <<>> /\ \A i \in 1..Len(s) : s[i] \in Digits

\* old.replace('v', '').replace('version', '').replace('rev', '')
\*    .replace('revision', '').strip().split('.')
version_parts(version) ==
  SplitDot(Strip(Remove(Remove(Remove(Remove(version, <<"v">>),
                                      <<"v", "e", "r", "s", "i", "o", "n">>),
                               <<"r", "e", "v">>),
                        <<"r", "e", "v", "i", "s", "i", "o", "n">>)))

\* int(part) if part.isdigit() else 0
part_number(part) == IF IsDigit(part) THEN DigitsValue(part) ELSE 0

\* The loop of _assess_version_impact from the k-th pair of
\* zip(old_versions, new_versions) on.
RECURSIVE assess_version_pairs(_, _, _)
assess_version_pairs(old_versions, new_versions, k) ==
  IF k > Len(old_versions) \/ k > Len(new_versions) THEN "minor"
  ELSE
    Bind(version_parts(old_versions[k]), LAMBDA old_parts :
    Bind(version_parts(new_versions[k]), LAMBDA new_parts :
      IF part_number(new_parts[1]) > part_number(old_parts[1]) THEN "major"
      ELSE IF /\ Len(old_parts) >= 2 /\ Len(new_parts) >= 2
              /\ part_number(new_parts[2]) > part_number(old_parts[2])
      THEN "moderate"
      ELSE assess_version_pairs(old_versions, new_versions, k + 1)))

\* UniversalFileDiffAnalyzer._assess_version_impact; split() returns at least
\* one part and int() is applied to digits only, so nothing is raised.
assess_version_impact(old_versions, new_versions) ==
  assess_version_pairs(old_versions, new_versions, 1)

\* UniversalFileDiffAnalyzer._create_version_change
create_version_change(old_line, new_line, old_versions, new_versions) ==
  [type |-> "version_change",
   description |-> FString(<<"Version changed from ",
                             JoinComma(old_versions), " to ",
                             JoinComma(new_versions)>>),
   old_content |-> old_line,
   new_content |-> new_line,
   old_values |-> old_versions,
   new_values |-> new_versions,
   impact |-> assess_version_impact(old_versions, new_versions),
   change_category |-> "version_update"]

\* UniversalFileDiffAnalyzer._create_date_change
create_date_change(old_line, new_line, old_dates, new_dates) ==
  [type |-> "date_change",
   description |-> FString(<<"Date changed from ",
                             JoinComma(old_dates), " to ",
                             JoinComma(new_dates)>>),
   old_content |-> old_line,
   new_content |-> new_line,
   old_values |-> old_dates,
   new_values |-> new_dates,
   impact |-> "minor",
   change_category |-> "date_update"]

\* UniversalFileDiffAnalyzer._create_url_change
create_url_change(old_line, new_line, old_urls, new_urls) ==
  [type |-> "url_change",
   description |-> FString(<<"URL changed from ",
                             JoinComma(old_urls), " to ",
                             JoinComma(new_urls)>>),
   old_content |-> old_line,
   new_content |-> new_line,
   old_values |-> old_urls,
   new_values |-> new_urls,
   impact |-> "moderate",
   change_category |-> "url_update"]

\* UniversalFileDiffAnalyzer._create_email_change
create_email_change(old_line, new_line, old_emails, new_emails) ==
  [type |-> "email_change",
   description |-> FString(<<"Email changed from ",
                             JoinComma(old_emails), " to ",
                             JoinComma(new_emails)>>),
   old_content |-> old_line,
   new_content |-> new_line,
   old_values |-> old_emails,
   new_values |-> new_emails,
   impact |-> "moderate",
   change_category |-> "contact_update"]

\* UniversalFileDiffAnalyzer._create_simple_change
create_simple_change(old_line, new_line, change_type) ==
  IF change_type = "line_addition"
  THEN [type |-> "line_addition",
        description |-> FString(<<"Line added: ", Strip(new_line)>>),
        old_content |-> <<>>,
        new_content |-> new_line,
        impact |-> "minor",
        change_category |-> "content_addition"]
  ELSE IF change_type = "line_deletion"
  THEN [type |-> "line_deletion",
        description |-> FString(<<"Line removed: ", Strip(old_line)>>),
        old_content |-> old_line,
        new_content |-> <<>>,
        impact |-> "minor",
        change_category |-> "content_deletion"]
  ELSE [type |-> "content_modification",
        description |-> FString(<<"Content changed from '", Strip(old_line),
                                  "' to '", Strip(new_line), "'">>),
        old_content |-> old_line,
        new_content |-> new_line,
        impact |-> "moderate",
        change_category |-> "content_modification"]

\* re.match(r'^\d+[\.\)]\s+', line): the digits at the start of the line
\* when they are followed by "." or ")" and whitespace, else nothing.
numbered_prefix(line) ==
  Bind(DigitRun(line, 0), LAMBDA n :
    IF /\ n > 0
       /\ n + 1 < Len(line)
       /\ line[n + 1] \in {".", ")"}
       /\ IsSpace(line[n + 2])
    THEN SubSeq(line, 1, n) ELSE <<>>)

\* UniversalFileDiffAnalyzer._is_numbered_item
is_numbered_item(line) == numbered_prefix(line) # <<>>

\* UniversalFileDiffAnalyzer._is_bullet_item: re.match(r'^[\-\*\+]\s+', line)
is_bullet_item(line) ==
  Len(line) >= 2 /\ line[1] \in {"-", "*", "+"} /\ IsSpace(line[2])

\* UniversalFileDiffAnalyzer._extract_number of a numbered item.
extract_number(line) == DigitsValue(numbered_prefix(line))

\* UniversalFileDiffAnalyzer._analyze_general_changes
analyze_general_changes(old_line, new_line) ==
  IF /\ is_numbered_item(old_line) /\ is_numbered_item(new_line)
     /\ extract_number(old_line) # extract_number(new_line)
  THEN [type |-> "numbering_update",
        description |-> FString(<<"Numbering changed from ",
                                  Decimal(extract_number(old_line)), " to ",
                                  Decimal(extract_number(new_line))>>),
        old_content |-> old_line,
        new_content |-> new_line,
        impact |-> "none",
        change_category |-> "formatting"]
  ELSE IF is_bullet_item(old_line) /\ is_bullet_item(new_line)
  THEN [type |-> "list_item_change",
        description |-> FString(<<"List item changed">>),
        old_content |-> old_line,
        new_content |-> new_line,
        impact |-> "minor",
        change_category |-> "content"]
  ELSE [type |-> "content_modification",
        description |-> FString(<<"Line content modified">>),
        old_content |-> old_line,
        new_content |-> new_line,
        impact |-> "moderate",
        change_category |-> "content"]

\* The patterns with the versions tried before the numbers.
PatternOrder_versions_first ==
  <<"versions", "numbers", "dates", "urls", "emails">>

\* The patterns _detect_pattern_changes tries, in its order.
PatternOrder == <<"numbers", "versions", "dates", "urls", "emails">>

\* The record _detect_pattern_changes returns for a pattern whose matches
\* changed.
create_pattern_change(name, old_line, new_line, old_values, new_values) ==
  CASE name = "numbers" ->
         create_numeric_change(old_line, new_line, old_values, new_values)
    [] name = "versions" ->
         create_version_change(old_line, new_line, old_values, new_values)
    [] name = "dates" ->
         create_date_change(old_line, new_line, old_values, new_values)
    [] name = "urls" ->
         create_url_change(old_line, new_line, old_values, new_values)
    [] name = "emails" ->
         create_email_change(old_line, new_line, old_values, new_values)

\* _detect_pattern_changes from its k-th pattern on: the first pattern with
\* matches in both lines that are not the same list returns its record.
RECURSIVE detect_pattern_from(_, _, _)
detect_pattern_from(k, old_line, new_line) ==
  IF k > Len(PatternOrder) THEN None
  ELSE
    Bind(findall(PatternOrder[k], old_line), LAMBDA values_old :
    Bind(findall(PatternOrder[k], new_line), LAMBDA values_new :
      IF values_old # <<>> /\ values_new # <<>> /\ values_old # values_new
      THEN create_pattern_change(PatternOrder[k], old_line, new_line,
                                 values_old, values_new)
      ELSE detect_pattern_from(k + 1, old_line, new_line)))

\* UniversalFileDiffAnalyzer._detect_pattern_changes
detect_pattern_changes(old_line, new_line) ==
  detect_pattern_from(1, old_line, new_line)

\* The longest line the classifier analyzes.
MaxLineLength == 200

\* UniversalFileDiffAnalyzer._analyze_universal_line_change
analyze_universal_line_change(old_line0, new_line0) ==
  Bind(Strip(old_line0), LAMBDA old_line :
  Bind(Strip(new_line0), LAMBDA new_line :
    IF old_line = <<>> \/ new_line = <<>> THEN None
    ELSE IF Len(old_line) > MaxLineLength \/ Len(new_line) > MaxLineLength
    THEN None
    ELSE Bind(detect_pattern_changes(old_line, new_line), LAMBDA change_info :
           IF change_info # None THEN change_info
           ELSE analyze_general_changes(old_line, new_line))))

(***************************************************************************)
(* Universal analysis orchestrator (universal_analyzer.py)                 *)
(***************************************************************************)

\* for j in range(j, j2): if lines2[j].strip(): append a line_addition
RECURSIVE added_lines(_, _, _)
added_lines(lines2, j, j2) ==
  IF j >= j2 THEN <<>>
  ELSE (IF Strip(lines2[j + 1]) # <<>>
        THEN <<create_simple_change(<<>>, lines2[j + 1], "line_addition")>>
        ELSE <<>>)
       \o added_lines(lines2, j + 1, j2)

\* for i in range(i, i2): if lines1[i].strip(): append a line_deletion
RECURSIVE deleted_lines(_, _, _)
deleted_lines(lines1, i, i2) ==
  IF i >= i2 THEN <<>>
  ELSE (IF Strip(lines1[i + 1]) # <<>>
        THEN <<create_simple_change(lines1[i + 1], <<>>, "line_deletion")>>
        ELSE <<>>)
       \o deleted_lines(lines1, i + 1, i2)

\* The record of one pair of corresponding lines of a replace opcode.
replaced_line(old_line, new_line) ==
  IF Strip(old_line) # Strip(new_line)
  THEN Bind(analyze_universal_line_change(old_line, new_line), LAMBDA change :
         IF change # None THEN <<change>>
         ELSE <<create_simple_change(old_line, new_line,
                                     "content_modification")>>)
  ELSE <<>>

\* for off in range(off, common_len): compare the corresponding lines
RECURSIVE replaced_lines(_, _, _, _, _)
replaced_lines(lines1, lines2, op, off, common_len) ==
  IF off >= common_len THEN <<>>
  ELSE replaced_line(lines1[op.i1 + off + 1], lines2[op.j1 + off + 1])
       \o replaced_lines(lines1, lines2, op, off + 1, common_len)

\* The opcode loop body without the blank-line test of insertions: every
\* inserted line appends a line_addition.
opcode_changes_blank(op, lines1, lines2) ==
  IF op.tag = "equal" THEN <<>>
  ELSE IF op.tag = "insert"
  THEN [k \in 1..(op.j2 - op.j1) |->
          create_simple_change(<<>>, lines2[op.j1 + k], "line_addition")]
  ELSE IF op.tag = "delete" THEN deleted_lines(lines1, op.i1, op.i2)
  ELSE
    LET common_len == IF op.i2 - op.i1 < op.j2 - op.j1
                      THEN op.i2 - op.i1 ELSE op.j2 - op.j1
    IN replaced_lines(lines1, lines2, op, 0, common_len)
       \o deleted_lines(lines1, op.i1 + common_len, op.i2)
       \o added_lines(lines2, op.j1 + common_len, op.j2)

\* The body of the opcode loop of _detailed_line_analysis: the records one
\* opcode appends to real_changes.  Nothing is appended to
\* structural_changes.
opcode_changes(op, lines1, lines2) ==
  IF op.tag = "equal" THEN <<>>
  ELSE IF op.tag = "insert" THEN added_lines(lines2, op.j1, op.j2)
  ELSE IF op.tag = "delete" THEN deleted_lines(lines1, op.i1, op.i2)
  ELSE
    LET common_len == IF op.i2 - op.i1 < op.j2 - op.j1
                      THEN op.i2 - op.i1 ELSE op.j2 - op.j1
    IN replaced_lines(lines1, lines2, op, 0, common_len)
       \o deleted_lines(lines1, op.i1 + common_len, op.i2)
       \o added_lines(lines2, op.j1 + common_len, op.j2)

\* The opcode loop of _detailed_line_analysis as it ran: each opcode with the
\* number of records it appended.
detailed_line_steps(file1, file2) ==
  Bind(SplitNL(file1.content), LAMBDA lines1 :
  Bind(SplitNL(file2.content), LAMBDA lines2 :
  Bind(get_opcodes(lines1, lines2), LAMBDA opcodes :
    [k \in 1..Len(opcodes) |->
       [opcode |-> opcodes[k],
        records |-> Len(opcode_changes(opcodes[k], lines1, lines2))]])))

\* UniversalFileDiffAnalyzer._detailed_line_analysis
detailed_line_analysis(file1, file2) ==
  Bind(SplitNL(file1.content), LAMBDA lines1 :
  Bind(SplitNL(file2.content), LAMBDA lines2 :
  Bind(get_opcodes(lines1, lines2), LAMBDA opcodes :
  Bind(Concat([k \in 1..Len(opcodes) |->
                 opcode_changes(opcodes[k], lines1, lines2)]),
       LAMBDA real_changes :
    LET structural_changes == <<>>
    IN [real_changes |-> real_changes,
        structural_changes |-> structural_changes,
        total_changes |-> Len(real_changes) + Len(structural_changes),
        analysis_method |-> "detailed_line_diff",
        similarity_percentage |-> "95%+ (detailed analysis)"]))))

\* ", ".join(sorted(words)[:10]) + ("..." if len(words) > 10 else "")
first_ten(words) ==
  Bind(Sorted(words), LAMBDA sorted :
    JoinComma(SubSeq(sorted, 1, IF Len(sorted) < 10 THEN Len(sorted) ELSE 10))
    \o (IF Cardinality(words) > 10 THEN <<".", ".", ".">> ELSE <<>>))

\* UniversalFileDiffAnalyzer._basic_word_analysis
basic_word_analysis(file1, file2) ==
  Bind(Range(SplitWS(Lower(file1.content))), LAMBDA words1 :
  Bind(Range(SplitWS(Lower(file2.content))), LAMBDA words2 :
  LET added_words == words2 \ words1
      removed_words == words1 \ words2
  IN Bind(
        (IF added_words # {}
         THEN <<[type |-> "words_added",
                 description |-> FString(<<"Added ",
                                           Decimal(Cardinality(added_words)),
                                           " new words">>),
                 old_content |-> <<>>,
                 new_content |-> first_ten(added_words),
                 impact |-> "moderate",
                 change_category |-> "content_addition"]>>
         ELSE <<>>)
        \o
        (IF removed_words # {}
         THEN <<[type |-> "words_removed",
                 description |-> FString(<<"Removed ",
                                           Decimal(Cardinality(removed_words)),
                                           " words">>),
                 old_content |-> first_ten(removed_words),
                 new_content |-> <<>>,
                 impact |-> "moderate",
                 change_category |-> "content_deletion"]>>
         ELSE <<>>),
     LAMBDA real_changes :
       [real_changes |-> real_changes,
        structural_changes |-> <<>>,
        total_changes |-> Len(real_changes),
        analysis_method |-> "basic_word_diff",
        similarity_percentage |-> "less than 95% (basic analysis)"])))

\* The similarity, in hundredths, from which the detailed analysis is used.
DetailedThreshold == 9500

\* _perform_universal_analysis with the threshold at 90.
perform_universal_analysis_90(fs, cfg) ==
  IF Len(fs) # 2
  THEN [calls |-> <<>>, steps |-> <<>>,
        value |-> [error |-> "Exactly 2 files required for universal analysis"]]
  ELSE
    Bind(analyze(fs, cfg), LAMBDA basic_result :
      LET similarity ==
            basic_result.value.comparison_matrix[1].similarity_percentage
      IN IF similarity >= 9000
         THEN [calls |-> basic_result.calls,
               steps |-> detailed_line_steps(fs[1], fs[2]),
               value |-> detailed_line_analysis(fs[1], fs[2])]
         ELSE [calls |-> basic_result.calls,
               steps |-> <<>>,
               value |-> basic_word_analysis(fs[1], fs[2])])

\* UniversalFileDiffAnalyzer._perform_universal_analysis: value is the dict
\* it returns, calls the index pairs its analyze() compared, steps the
\* opcode loop of the detailed analysis.
perform_universal_analysis(fs, cfg) ==
  IF Len(fs) # 2
  THEN [calls |-> <<>>, steps |-> <<>>,
        value |-> [error |-> "Exactly 2 files required for universal analysis"]]
  ELSE
    Bind(analyze(fs, cfg), LAMBDA basic_result :
      LET similarity ==
            basic_result.value.comparison_matrix[1].similarity_percentage
      IN IF similarity >= DetailedThreshold
         THEN [calls |-> basic_result.calls,
               steps |-> detailed_line_steps(fs[1], fs[2]),
               value |-> detailed_line_analysis(fs[1], fs[2])]
         ELSE [calls |-> basic_result.calls,
               steps |-> <<>>,
               value |-> basic_word_analysis(fs[1], fs[2])])

\* UniversalFileDiffAnalyzer._get_universal_assessment
get_universal_assessment(analysis) ==
  IF analysis.real_changes = <<>> /\ analysis.structural_changes = <<>>
  THEN "No significant changes detected"
  ELSE IF Len(analysis.real_changes) <= 2 /\ analysis.structural_changes = <<>>
  THEN "Minor changes only"
  ELSE IF Len(analysis.real_changes) > 10 THEN "Major content changes"
  ELSE "Moderate changes detected"

\* UniversalFileDiffAnalyzer._get_universal_change_impact
get_universal_change_impact(analysis) ==
  LET impacts == {analysis.real_changes[k].impact :
                    k \in 1..Len(analysis.real_changes)}
  IN IF "major" \in impacts THEN "major"
     ELSE IF "moderate" \in impacts THEN "moderate"
     ELSE "minor"

\* The change_category values in the order sorted() puts them in.
CategoryOrder ==
  <<"contact_update", "content", "content_addition", "content_deletion",
    "content_modification", "data_modification", "date_update", "formatting",
    "other", "url_update", "version_update">>

\* UniversalFileDiffAnalyzer._get_change_categories
get_change_categories(analysis) ==
  LET categories == {analysis.real_changes[k].change_category :
                       k \in 1..Len(analysis.real_changes)}
  IN SelectSeq(CategoryOrder, LAMBDA c : c \in categories)

\* UniversalFileDiffAnalyzer.universal_analyze.  With more than two
\* documents _perform_universal_analysis returns its {"error": ...} dict and
\* the summary's universal_analysis["real_changes"] raises KeyError.
universal_analyze(fs, cfg) ==
  IF Len(fs) < 2
  THEN [raised |-> "ValueError", calls |-> <<>>, steps |-> <<>>, value |-> <<>>]
  ELSE
    Bind(analyze(fs, cfg), LAMBDA basic_result :
    Bind(perform_universal_analysis(fs, cfg), LAMBDA performed :
    LET universal_analysis == performed.value
        first == basic_result.value.comparison_matrix[1]
    IN IF "real_changes" \notin DOMAIN universal_analysis
       THEN [raised |-> "KeyError",
             calls |-> basic_result.calls \o performed.calls,
             steps |-> performed.steps,
             value |-> <<>>]
       ELSE [raised |-> "none",
             calls |-> basic_result.calls \o performed.calls,
             steps |-> performed.steps,
             value |->
               [basic_analysis |->
                  [similarity_percentage |-> first.similarity_percentage,
                   difference_percentage |-> first.difference_percentage,
                   is_significantly_different |->
                     first.is_significantly_different,
                   common_words |-> first.common_words,
                   unique_words_file1 |-> first.unique_words_file1,
                   unique_words_file2 |-> first.unique_words_file2],
                universal_analysis |-> universal_analysis,
                summary |->
                  [real_changes_count |-> Len(universal_analysis.real_changes),
                   structural_changes_count |->
                     Len(universal_analysis.structural_changes),
                   overall_assessment |->
                     get_universal_assessment(universal_analysis),
                   change_impact |->
                     get_universal_change_impact(universal_analysis),
                   change_categories |->
                     get_change_categories(universal_analysis)]]]))

(***************************************************************************)
(* Inputs                                                                  *)
(***************************************************************************)

\* The most documents one analyzer holds.
MaxFiles == 3

\* A text from its lines.
Text(lines) == JoinNL(lines)

\* A line from its words, one space between them.
RECURSIVE Words(_)
Words(ws) ==
  IF ws = <<>> THEN <<>>
  ELSE IF Len(ws) = 1 THEN <<ws[1]>>
  ELSE <<ws[1], " ">> \o Words(Tail(ws))

TenWords == Words(<<"a", "b", "c", "d", "e", "f", "g", "h", "i", "j">>)

\* The texts a caller registers as the first or the second document.
Texts ==
  { <<>>,                                       \* ""
    <<" ">>,                                    \* " "
    <<"a">>,
    <<"a", " ", "b">>,                          \* "a b"
    <<"A", " ", "b">>,                          \* "A b"
    <<"a", ",", " ", "b">>,                     \* "a, b"
    <<" ", "a", " ", "b">>,                     \* " a b"
    <<"a", " ", "c">>,                          \* "a c"
    <<"c", " ", "d">>,                          \* "c d"
    Text(<<<<"a">>, <<>>, <<"b">>>>),           \* "a\n\nb"
    Text(<<<<"a">>, <<"b">>>>),                 \* "a\nb"
    Text(<<<<"a">>, <<"b">>, <<"a">>>>),        \* "a\nb\na"
    Text(<<<<"a", " ", "b">>, <<"b">>>>),       \* "a b\nb"
    Text(<<<<"b">>, <<"a", " ", "b">>>>),       \* "b\na b"
    SubSeq(TenWords, 1, 17),                    \* "a b c d e f g h i"
    TenWords,                                   \* "a b c d e f g h i j"
    TenWords \o <<" ", "k">> }                  \* "a b c d e f g h i j k"

\* Texts of one line with a number, a version, a date, a URL or an e-mail
\* address, each next to a rewriting of it.
PatternTexts ==
  { <<"1", ".", "5">>,
    <<"1", ",", "5">>,
    <<"v", "1", ".", "0">>,
    <<"v", "1", ",", "0">>,
    <<"1", " ", "J", "a", "n", " ", "2", "0", "2", "4">>,
    <<"1", " ", "j", "a", "n", " ", "2", "0", "2", "4">>,
    <<"h", "t", "t", "p", ":", "/", "/", "a", ".", "b">>,
    <<"h", "t", "t", "p", ":", "/", "/", "a", "-", "b">>,
    <<"a", "@", "b", ".", "c", "o">>,
    <<"a", ".", "@", "b", ".", "c", "o">>,
    <<"v", "1", ".", "0", " ", "1", ".", "5">>,
    <<"v", "1", ",", "0", " ", "1", ",", "5">> }

\* Texts of lines next to the same text with a line inserted or rewritten,
\* and two bullet items.
LineTexts ==
  { Text(<<<<"x">>, <<"y">>>>),                         \* "x\ny"
    Text(<<<<"x">>, <<"z">>, <<"y">>>>),                \* "x\nz\ny"
    Text(<<<<"x">>, <<"x">>, <<"y">>>>),                \* "x\nx\ny"
    Text(<<<<"x", " ", "y">>, <<>>>>),                  \* "x y\n"
    Text(<<<<"x", " ", "y">>, <<"y">>>>),               \* "x y\ny"
    <<"-", " ", "x">>,                                  \* "- x"
    <<"*", " ", "x">> }                                 \* "* x"

\* The texts registered as a third or later document.
MoreTexts == { <<"a", " ", "b">>, <<"c", " ", "d">> }

\* The texts the extractor returns for a file, and the types it gives them.
FileTexts == { <<"a", " ", "b">>, Text(<<<<"a">>, <<>>, <<"b">>>>) }

ExtractedTypes == {"pdf", "txt"}

\* The configurations an analyzer is built with; the tolerance in hundredths
\* (30.0 is the default, and 0 <= tolerance <= 100).
Configs ==
  { AnalysisConfig(3000, FALSE, TRUE),
    AnalysisConfig(3333, FALSE, TRUE),
    AnalysisConfig(0, TRUE, TRUE),
    AnalysisConfig(5000, FALSE, FALSE),
    AnalysisConfig(3000, TRUE, FALSE),
    AnalysisConfig(5000, TRUE, TRUE) }

(***************************************************************************)
(* State                                                                   *)
(***************************************************************************)

VARIABLES
  files,        \* FileDiffAnalyzer._files
  config,       \* FileDiffAnalyzer.config
  ret,          \* what the latest call returned or raised
  temp_files,   \* S3FileDiffAnalyzer.temp_files
  local_paths,  \* the temporary files that exist on the local disk
  next_path,    \* the name tempfile gives to the next temporary file
  max_retries   \* S3Client.download_config.max_retries

vars ==
  <<files, config, ret, temp_files, local_paths, next_path, max_retries>>

\* The state of the S3 client and of the S3 analyzer.
s3vars == <<temp_files, local_paths, next_path, max_retries>>

\* S3DownloadConfig.max_retries by default.
DefaultMaxRetries == 3

\* S3FileDiffAnalyzer.__init__ with a client of the default download
\* configuration: no temporary file yet.
S3Init ==
  /\ temp_files = <<>>
  /\ local_paths = {}
  /\ next_path = 1
  /\ max_retries = DefaultMaxRetries

\* A call that returns the analyzer itself (or None).
Returned(name) ==
  [op |-> name, raised |-> "none", calls |-> <<>>, steps |-> <<>>,
   value |-> <<>>]

\* FileDiffAnalyzer.__init__
Init ==
  /\ files = <<>>
  /\ config \in Configs
  /\ ret = Returned("init")
  /\ S3Init

\* The texts add_text is called with after the documents fs: a text of
\* PatternTexts or of LineTexts is compared with the texts of its own set.
TextsAfter(fs) ==
  IF fs = <<>> THEN Texts \cup PatternTexts \cup LineTexts
  ELSE IF Len(fs) >= 2 THEN MoreTexts
  ELSE IF fs[1].content \in PatternTexts THEN PatternTexts
  ELSE IF fs[1].content \in LineTexts THEN LineTexts
  ELSE Texts

\* FileDiffAnalyzer.add_text
AddText ==
  /\ Len(files) < MaxFiles
  /\ \E text \in TextsAfter(files) :
       files' = Append(files, FileInfo("text_segment", text))
  /\ ret' = Returned("add_text")
  /\ UNCHANGED <<config, s3vars>>

\* FileDiffAnalyzer.add_file: the extractor supplies the text and its type.
AddFile ==
  /\ Len(files) < 2
  /\ \E text \in FileTexts, ftype \in ExtractedTypes :
       files' = Append(files, FileInfo(ftype, text))
  /\ ret' = Returned("add_file")
  /\ UNCHANGED <<config, s3vars>>

\* FileDiffAnalyzer.clear_files
ClearFiles ==
  /\ files' = <<>>
  /\ ret' = Returned("clear_files")
  /\ UNCHANGED <<config, s3vars>>

\* FileDiffAnalyzer.analyze
Analyze ==
  /\ ret' = [op |-> "analyze"] @@ analyze(files, config)
  /\ UNCHANGED <<files, config, s3vars>>

\* universal_analyze that clears the registered documents once analyzed.
UniversalAnalyze_clears ==
  /\ ret' = [op |-> "universal_analyze"] @@ universal_analyze(files, config)
  /\ files' = <<>>
  /\ UNCHANGED <<config, s3vars>>

\* UniversalFileDiffAnalyzer.universal_analyze
UniversalAnalyze ==
  /\ ret' = [op |-> "universal_analyze"] @@ universal_analyze(files, config)
  /\ UNCHANGED <<files, config, s3vars>>

Next == AddText \/ AddFile \/ ClearFiles \/ Analyze \/ UniversalAnalyze

Spec == Init /\ [][Next]_vars

(***************************************************************************)
(* The percentages of word sets of given sizes.  A document of 10000       *)
(* distinct words is an input as any other; the comparator reads only the  *)
(* sizes of the two word sets and of their intersection and differences.   *)
(***************************************************************************)

\* len(common_words), len(unique_words_file1), len(unique_words_file2).
CountValues == {0, 1, 2, 3, 9999, 10000}

\* _compare_files on two word sets with n_common words in common and
\* n_unique1, n_unique2 words of their own.
CompareCounts ==
  /\ \E n_common \in CountValues, n_unique1 \in CountValues,
        n_unique2 \in CountValues :
       ret' = [op |-> "compare_counts", raised |-> "none", calls |-> <<>>,
               steps |-> <<>>,
               value |->
                 [n_common |-> n_common,
                  n_unique1 |-> n_unique1,
                  n_unique2 |-> n_unique2,
                  info |-> compare_counts(n_common, n_unique1, n_unique2,
                                          n_common + n_unique1,
                                          n_common + n_unique2, config)]]
  /\ UNCHANGED <<files, config, s3vars>>

NextCounts == CompareCounts

SpecCounts == Init /\ [][NextCounts]_vars

(***************************************************************************)
(* The change classifier and its impact rules called on their own, with    *)
(* the lines of two documents of one line                                  *)
(***************************************************************************)

\* A line longer than the classifier accepts.
LongLine == [k \in 1..(MaxLineLength + 1) |-> "a"]

\* The lines the classifier is called with.
ClassifierLines ==
  { <<>>,                                          \* ""
    <<" ">>,                                       \* " "
    <<"a">>,                                       \* "a"
    <<"b">>,                                       \* "b"
    <<"a", " ", "1">>,                             \* "a 1"
    <<"b", " ", "1">>,                             \* "b 1"
    <<"0">>,                                       \* "0"
    <<"5">>,                                       \* "5"
    <<"1", "0", "0">>,                             \* "100"
    <<"1", "0", "5">>,                             \* "105"
    <<"1", "1", "0">>,                             \* "110"
    <<"1", "1", "1">>,                             \* "111"
    <<"1", "5", "0">>,                             \* "150"
    <<"2", "0", "0">>,                             \* "200"
    <<"2", "0", "1">>,                             \* "201"
    <<"3", "0", "0">>,                             \* "300"
    <<"0", ".", "5">>,                             \* "0.5"
    <<"1", ".", "5">>,                             \* "1.5"
    <<"1", "0", "0", " ", "0">>,                   \* "100 0"
    <<"1", "0", "0", " ", "5">>,                   \* "100 5"
    <<"3", "0", "0", " ", "5">>,                   \* "300 5"
    <<"1", ".", "0">>,                             \* "1.0"
    <<"2", ".", "0">>,                             \* "2.0"
    <<"1", ".", "2">>,                             \* "1.2"
    <<"1", ".", "0", ".", "1">>,                   \* "1.0.1"
    <<"2">>,                                       \* "2"
    <<"v", "1", ".", "0">>,                        \* "v1.0"
    <<"v", "2", ".", "0">>,                        \* "v2.0"
    <<"V", "2", ".", "1">>,                        \* "V2.1"
    <<"V", "e", "r", "s", "i", "o", "n", " ", "1", ".", "0">>, \* "Version 1.0"
    <<"V", "e", "r", "s", "i", "o", "n", " ", "2", ".", "0">>, \* "Version 2.0"
    <<"r", "e", "v", " ", "2">>,                   \* "rev 2"
    <<"r", "e", "v", " ", "3">>,                   \* "rev 3"
    <<"1", ".", "0", "-", "b", "e", "t", "a">>,    \* "1.0-beta"
    <<"1", " ", "J", "a", "n", " ", "2", "0", "2", "4">>, \* "1 Jan 2024"
    <<"1", " ", "F", "e", "b", " ", "2", "0", "2", "4">>, \* "1 Feb 2024"
    <<"1", "/", "2", "/", "2", "0", "2", "4">>,    \* "1/2/2024"
    <<"1", "-", "2", "-", "2", "0", "2", "4">>,    \* "1-2-2024"
    <<"h", "t", "t", "p", ":", "/", "/", "a", ".", "b">>, \* "http://a.b"
    <<"h", "t", "t", "p", ":", "/", "/", "a", "-", "b">>, \* "http://a-b"
    <<"a", "@", "b", ".", "c", "o">>,              \* "a@b.co"
    <<"c", "@", "b", ".", "c", "o">>,              \* "c@b.co"
    <<"a", "@", "b", ".", "c", "o", " ", "h", "t", "t", "p", ":", "/", "/", "a">>, \* "a@b.co http://a"
    <<"c", "@", "b", ".", "c", "o", " ", "h", "t", "t", "p", ":", "/", "/", "b">>, \* "c@b.co http://b"
    <<"1", ".", " ", "a">>,                        \* "1. a"
    <<"2", ".", " ", "a">>,                        \* "2. a"
    <<"2", ")", " ", "b">>,                        \* "2) b"
    <<"-", " ", "a">>,                             \* "- a"
    <<"*", " ", "b">>,                             \* "* b"
    LongLine }

\* A call of a method of the classifier that returned value.
Called(name, value) ==
  [op |-> name, raised |-> "none", calls |-> <<>>, steps |-> <<>>,
   value |-> value]

\* The old and the new line: the documents registered.
OldLine == files[1].content

NewLine == files[2].content

\* A new analyzer with the default configuration.
InitLines ==
  /\ files = <<>>
  /\ config = AnalysisConfig(3000, FALSE, TRUE)
  /\ ret = Returned("init")
  /\ S3Init

\* FileDiffAnalyzer.add_text with a document of one line.
AddLine ==
  /\ Len(files) < 2
  /\ \E line \in ClassifierLines :
       files' = Append(files, FileInfo("text_segment", line))
  /\ ret' = Returned("add_text")
  /\ UNCHANGED <<config, s3vars>>

\* UniversalFileDiffAnalyzer._detect_pattern_changes, called as
\* _analyze_universal_line_change calls it: with trimmed lines that are not
\* empty and of 200 characters at most.
DetectPatternChanges ==
  /\ Len(files) = 2
  /\ Strip(OldLine) # <<>> /\ Strip(NewLine) # <<>>
  /\ Len(Strip(OldLine)) <= MaxLineLength
  /\ Len(Strip(NewLine)) <= MaxLineLength
  /\ ret' = Called("detect_pattern_changes",
                   [change |-> detect_pattern_changes(Strip(OldLine),
                                                      Strip(NewLine))])
  /\ UNCHANGED <<files, config, s3vars>>

\* UniversalFileDiffAnalyzer._analyze_universal_line_change
AnalyzeUniversalLineChange ==
  /\ Len(files) = 2
  /\ ret' = Called("analyze_universal_line_change",
                   [change |-> analyze_universal_line_change(OldLine, NewLine)])
  /\ UNCHANGED <<files, config, s3vars>>

\* UniversalFileDiffAnalyzer._assess_numeric_impact, called with the matches
\* of the numbers pattern in the two lines.
AssessNumericImpact ==
  /\ Len(files) = 2
  /\ Len(OldLine) <= MaxLineLength /\ Len(NewLine) <= MaxLineLength
  /\ ret' = Called("assess_numeric_impact",
                   [old_numbers |-> findall("numbers", OldLine),
                    new_numbers |-> findall("numbers", NewLine),
                    impact |->
                      assess_numeric_impact(findall("numbers", OldLine),
                                            findall("numbers", NewLine))])
  /\ UNCHANGED <<files, config, s3vars>>

\* UniversalFileDiffAnalyzer._assess_version_impact, called with the matches
\* of the versions pattern in the two lines.
AssessVersionImpact ==
  /\ Len(files) = 2
  /\ Len(OldLine) <= MaxLineLength /\ Len(NewLine) <= MaxLineLength
  /\ ret' = Called("assess_version_impact",
                   [old_versions |-> findall("versions", OldLine),
                    new_versions |-> findall("versions", NewLine),
                    impact |->
                      assess_version_impact(findall("versions", OldLine),
                                            findall("versions", NewLine))])
  /\ UNCHANGED <<files, config, s3vars>>

NextLines ==
  \/ AddLine
  \/ DetectPatternChanges
  \/ AnalyzeUniversalLineChange
  \/ AssessNumericImpact
  \/ AssessVersionImpact

SpecLines == InitLines /\ [][NextLines]_vars

(***************************************************************************)
(* Properties of the word-set comparator                                   *)
(***************************************************************************)

\* analyze has returned a ComparisonResult.
Analyzed == ret.op = "analyze" /\ ret.raised = "none"

Matrix == ret.value.comparison_matrix

\* The normalized word set of document i when compared with document j.
NormWords(i, j) ==
  LET has_pdf == files[i].file_type = "pdf" \/ files[j].file_type = "pdf"
  IN extract_words(files[i].content,
                   has_pdf /\ files[i].file_type # "pdf", config)

\* The k-th index pair of the upper triangle, counted row by row.
PairAt(k) == ret.calls[k]

WordsA(k) == NormWords(PairAt(k)[1], PairAt(k)[2])

WordsB(k) == NormWords(PairAt(k)[2], PairAt(k)[1])

Counted == ret.op = "compare_counts"

SetEqual == ret.value.n_unique1 = 0 /\ ret.value.n_unique2 = 0

Reports100And0 ==
  /\ ret.value.info.similarity_percentage = 10000
  /\ ret.value.info.difference_percentage = 0

TotalWords ==
  2 * ret.value.n_common + ret.value.n_unique1 + ret.value.n_unique2

\* C2 as claimed: similarity 100 and difference 0 are reported if and only
\* if the two word sets are set-equal.
C2_Claim == Counted => (Reports100And0 <=> SetEqual)

\* C2 as amended: set-equal word sets report similarity 100 and difference
\* 0, and word sets of at most 20000 words in total that report similarity
\* 100 and difference 0 are set-equal.
C2_Amended ==
  Counted =>
    /\ SetEqual => Reports100And0
    /\ (TotalWords <= 20000 /\ Reports100And0) => SetEqual

\* C2 witness: two word sets of 19999 words in total, one word apart, which
\* report less than 100.
C2_Witness ==
  /\ Counted
  /\ TotalWords = 19999
  /\ ~SetEqual
  /\ ret.value.info.similarity_percentage = 9999

\* C3 as claimed: an entry is significantly different exactly when its
\* reported difference_percentage exceeds the configured tolerance.
C3_Claim ==
  Analyzed =>
    \A k \in 1..Len(Matrix) :
      Matrix[k].is_significantly_different <=>
        Matrix[k].difference_percentage > config.tolerance_percentage

\* C4: the entry for (A, B) equals the comparison of (B, A) with the two
\* unique-word counts exchanged.
C4_Symmetric ==
  Analyzed =>
    \A k \in 1..Len(Matrix) :
      LET d == Matrix[k]
          e == compare_files(files[PairAt(k)[2]], files[PairAt(k)[1]], config)
      IN /\ d.similarity_percentage = e.similarity_percentage
         /\ d.difference_percentage = e.difference_percentage
         /\ d.common_words = e.common_words
         /\ d.is_significantly_different = e.is_significantly_different
         /\ d.unique_words_file1 = e.unique_words_file2
         /\ d.unique_words_file2 = e.unique_words_file1

\* C4 witness: a compared pair whose documents have different numbers of
\* words of their own, and different numbers of words.
C4_Witness ==
  /\ Analyzed
  /\ \E k \in 1..Len(Matrix) :
       /\ Matrix[k].unique_words_file1 # Matrix[k].unique_words_file2
       /\ Matrix[k].common_words > 0

\* The index pairs i < j of n documents.
UpperTriangle(n) == {<<i, j>> \in (1..n) \X (1..n) : i < j}

\* C5: analyze raises the validation error with fewer than 2 documents, and
\* otherwise returns N*(N-1)/2 entries, one for each pair i < j, each pair
\* compared once and its entry the comparison of its two documents.
C5_AllPairs ==
  ret.op = "analyze" =>
    LET n == Len(files)
    IN IF n < 2
       THEN ret.raised = "ValueError" /\ ret.calls = <<>>
       ELSE /\ ret.raised = "none"
            /\ Len(Matrix) = (n * (n - 1)) \div 2
            /\ Len(ret.calls) = Len(Matrix)
            /\ Range(ret.calls) = UpperTriangle(n)
            /\ \A k \in 1..Len(Matrix) :
                 Matrix[k] = compare_files(files[PairAt(k)[1]],
                                           files[PairAt(k)[2]], config)

\* C5 witness: three documents analyzed into three entries.
C5_Witness ==
  /\ Analyzed
  /\ Len(files) = 3
  /\ Len(Matrix) = 3
  /\ files[1] # files[2]

\* A universal_analyze call of the registered documents has returned.
UniversallyAnalyzed == ret.op = "universal_analyze" /\ ret.raised = "none"

Basic == ret.value.basic_analysis

Universal == ret.value.universal_analysis

\* C6 as claimed: with fewer or with more than 2 documents universal_analyze
\* raises the validation error before any comparison is made, and returns
\* nothing.
C6_Claim ==
  (ret.op = "universal_analyze" /\ Len(files) # 2) =>
    /\ ret.raised = "ValueError"
    /\ ret.calls = <<>>
    /\ ret.value = <<>>

\* C7 as claimed: with more than two documents universal_analyze returns a
\* result whose universal_analysis has an "error" entry.
C7_Claim ==
  (ret.op = "universal_analyze" /\ Len(files) > 2) =>
    /\ ret.raised = "none"
    /\ "error" \in DOMAIN Universal

\* The types of the records of the word-set analysis.
WordSetTypes == {"words_added", "words_removed"}

C9_IdenticalCopy ==
  (ret.op = "universal_analyze" /\ Len(files) = 2
     /\ files[1].content = files[2].content) =>
    /\ ret.raised = "none"
    /\ Basic.similarity_percentage = 10000
    /\ Basic.difference_percentage = 0
    /\ Universal.real_changes = <<>>
    /\ Universal.structural_changes = <<>>

\* C9 witness: a document of several lines was compared with its copy.
C9_Witness ==
  /\ UniversallyAnalyzed
  /\ Len(files) = 2
  /\ files[1].content = files[2].content
  /\ Len(SplitNL(files[1].content)) > 1
  /\ Basic.common_words > 1

\* The detailed line analysis has run.
DetailedMode ==
  UniversallyAnalyzed /\ Universal.analysis_method = "detailed_line_diff"

Lines1 == SplitNL(files[1].content)

Lines2 == SplitNL(files[2].content)

\* One of lines[lo + 1 .. hi] is not blank.
SomeNonBlank(lines, lo, hi) ==
  \E k \in (lo + 1)..hi : Strip(lines[k]) # <<>>

\* An opcode that changes more than blank lines and surrounding whitespace:
\* an insert or a delete of a line that is not blank, or a replace with a
\* pair of corresponding lines that differ once trimmed or with a line left
\* over that is not blank.
Substantive(op) ==
  LET n == IF op.i2 - op.i1 < op.j2 - op.j1
           THEN op.i2 - op.i1 ELSE op.j2 - op.j1
  IN \/ op.tag = "insert" /\ SomeNonBlank(Lines2, op.j1, op.j2)
     \/ op.tag = "delete" /\ SomeNonBlank(Lines1, op.i1, op.i2)
     \/ /\ op.tag = "replace"
        /\ \/ \E off \in 1..n :
                Strip(Lines1[op.i1 + off]) # Strip(Lines2[op.j1 + off])
           \/ SomeNonBlank(Lines1, op.i1 + n, op.i2)
           \/ SomeNonBlank(Lines2, op.j1 + n, op.j2)

RECURSIVE SumRecords(_)
SumRecords(steps) ==
  IF steps = <<>> THEN 0 ELSE Head(steps).records + SumRecords(Tail(steps))

Opcodes == [k \in 1..Len(ret.steps) |-> ret.steps[k].opcode]

\* The opcodes ops cover a[0:n] and b[0:m] in order: each starts where the
\* one before it ended, the first at 0 and the last ending at n and m, and
\* none is empty, so that every index is in the range of exactly one.
CoversInOrder(ops, n, m) ==
  /\ \A k \in 1..Len(ops) :
       /\ ops[k].i1 = (IF k = 1 THEN 0 ELSE ops[k - 1].i2)
       /\ ops[k].j1 = (IF k = 1 THEN 0 ELSE ops[k - 1].j2)
       /\ ops[k].i1 <= ops[k].i2
       /\ ops[k].j1 <= ops[k].j2
       /\ ops[k].i1 < ops[k].i2 \/ ops[k].j1 < ops[k].j2
  /\ (IF ops = <<>> THEN 0 ELSE ops[Len(ops)].i2) = n
  /\ (IF ops = <<>> THEN 0 ELSE ops[Len(ops)].j2) = m

\* C11: the opcodes of the alignment of two line sequences cover every
\* index of the first and every index of the second exactly once, in
\* increasing order, without gap or overlap between consecutive opcodes;
\* for the two registered documents whatever the mode, and for the opcodes
\* the detailed line analysis went through.
C11_OpcodesCover ==
  /\ Len(files) >= 2 =>
       CoversInOrder(get_opcodes(Lines1, Lines2), Len(Lines1), Len(Lines2))
  /\ DetailedMode =>
       /\ Opcodes = get_opcodes(Lines1, Lines2)
       /\ CoversInOrder(Opcodes, Len(Lines1), Len(Lines2))

\* C11 witness: a detailed line analysis over three or more opcodes, with a
\* replace, an insert or a delete after an equal opcode and another opcode
\* after it.
C11_Witness ==
  /\ DetailedMode
  /\ Len(Lines1) >= 2 /\ Len(Lines2) >= 2
  /\ \E k \in 2..(Len(Opcodes) - 1) :
       /\ Opcodes[k - 1].tag = "equal"
       /\ Opcodes[k].tag # "equal"
       /\ Opcodes[k].i2 <= Len(Lines1) /\ Opcodes[k].j2 <= Len(Lines2)

(***************************************************************************)
(* C12: one line inserted between two lines                                *)
(***************************************************************************)

\* universal_analyze was called on two documents.
AnalyzedTwo == ret.op = "universal_analyze" /\ Len(files) = 2

\* lines2 is lines1 with one line that is not blank inserted after its k-th
\* line and before its next one.
InsertedBetween(lines1, lines2, k) ==
  /\ Len(lines2) = Len(lines1) + 1
  /\ k \in 1..(Len(lines1) - 1)
  /\ Strip(lines2[k + 1]) # <<>>
  /\ lines2 = SubSeq(lines1, 1, k) \o <<lines2[k + 1]>>
                \o SubSeq(lines1, k + 1, Len(lines1))

\* The records of real_changes of type t.
RecordsOfType(t) == SelectSeq(Universal.real_changes, LAMBDA r : r.type = t)

\* C12 as claimed: when the second document is the first with one more line,
\* not blank, inserted between two of its lines, universal_analyze reports
\* exactly one line_addition record, for the inserted line, and no
\* line_deletion record.
C12_Claim ==
  AnalyzedTwo =>
    \A k \in 1..(Len(Lines1) - 1) :
      InsertedBetween(Lines1, Lines2, k) =>
        /\ ret.raised = "none"
        /\ Len(RecordsOfType("line_addition")) = 1
        /\ RecordsOfType("line_addition")[1].new_content = Lines2[k + 1]
        /\ RecordsOfType("line_deletion") = <<>>

(***************************************************************************)
(* C13: a version and a number changed on one line                         *)
(***************************************************************************)

\* Both lists have a match and they are not the same list.
ValuesChanged(old_values, new_values) ==
  old_values # <<>> /\ new_values # <<>> /\ old_values # new_values

\* The two documents are of one line each, and the matches of the pattern
\* name in the one differ from its matches in the other.
OneLineChanged(name) ==
  /\ Len(Lines1) = 1 /\ Len(Lines2) = 1
  /\ ValuesChanged(findall(name, Lines1[1]), findall(name, Lines2[1]))

\* C13 as claimed: for two documents of one line that differ in a version
\* token and in a plain number, the real_changes of universal_analyze include
\* a version_change record and a numeric_change record.
C13_Claim ==
  (AnalyzedTwo /\ OneLineChanged("versions") /\ OneLineChanged("numbers")) =>
    /\ ret.raised = "none"
    /\ RecordsOfType("version_change") # <<>>
    /\ RecordsOfType("numeric_change") # <<>>

(***************************************************************************)
(* C14: structural shifts                                                  *)
(***************************************************************************)

\* The line at position i of the first document and the one at position j
\* of the second are the same once trimmed, not blank, and more than one
\* position apart.
ShiftedLine(i, j) ==
  /\ Strip(Lines1[i]) = Strip(Lines2[j])
  /\ Strip(Lines1[i]) # <<>>
  /\ Abs(i - j) > 1

\* C14 as claimed: in detailed line mode a line that occurs, identical after
\* trimming, in both documents at positions more than 1 apart is reported in
\* structural_changes as a shift with impact "none" and change_category
\* "formatting".
C14_Claim ==
  DetailedMode =>
    \A i \in 1..Len(Lines1), j \in 1..Len(Lines2) :
      ShiftedLine(i, j) =>
        \E k \in 1..Len(Universal.structural_changes) :
          /\ Universal.structural_changes[k].impact = "none"
          /\ Universal.structural_changes[k].change_category = "formatting"

(***************************************************************************)
(* C15: the order of the recognizers                                       *)
(***************************************************************************)

\* The recognizers in the order of their priority, and the type of the
\* record of each.
Recognizers ==
  <<[pattern |-> "numbers", type |-> "numeric_change"],
    [pattern |-> "versions", type |-> "version_change"],
    [pattern |-> "dates", type |-> "date_change"],
    [pattern |-> "urls", type |-> "url_change"],
    [pattern |-> "emails", type |-> "email_change"]>>

\* A method of the classifier was called with two lines it accepts.
ClassifiedBy(name) ==
  /\ ret.op = name
  /\ Len(files) = 2
  /\ Strip(OldLine) # <<>> /\ Strip(NewLine) # <<>>
  /\ Len(Strip(OldLine)) <= MaxLineLength
  /\ Len(Strip(NewLine)) <= MaxLineLength

\* The matches of the k-th recognizer in the old and in the new line.
OldMatches(k) == findall(Recognizers[k].pattern, Strip(OldLine))

NewMatches(k) == findall(Recognizers[k].pattern, Strip(NewLine))

\* The k-th recognizer has a match in both lines and the two lists differ.
Decides(k) == ValuesChanged(OldMatches(k), NewMatches(k))

\* The record is the one of the k-th recognizer.
RecordOf(change, k) ==
  /\ change # None
  /\ change.type = Recognizers[k].type
  /\ change.old_values = OldMatches(k)
  /\ change.new_values = NewMatches(k)

RelativeChangeAbove(old, new, num, den) ==
  Abs(new.num * old.scale - old.num * new.scale) * den
    > num * old.num * new.scale

\* The impact the claim gives to positionally paired values: "moderate"
\* when an old value is 0, else by the largest relative change r: "major"
\* for r > 100%, "moderate" for 10% < r <= 100%, "minor" for r <= 10%.
ClaimedNumericImpact(old_numbers, new_numbers) ==
  IF \E i \in 1..Len(old_numbers) : float_of(old_numbers[i]).num = 0
  THEN "moderate"
  ELSE IF \E i \in 1..Len(old_numbers) :
            RelativeChangeAbove(float_of(old_numbers[i]),
                                float_of(new_numbers[i]), 1, 1)
  THEN "major"
  ELSE IF \E i \in 1..Len(old_numbers) :
            RelativeChangeAbove(float_of(old_numbers[i]),
                                float_of(new_numbers[i]), 1, 10)
  THEN "moderate"
  ELSE "minor"

\* C16 as claimed: the impact of a numeric change follows the largest
\* relative change over the positionally paired old and new values: above
\* 100% "major", above 10% and up to 100% "moderate", up to 10% "minor", and
\* "moderate" when an old value is 0 (a division by zero).
C16_Claim ==
  (/\ ret.op = "assess_numeric_impact"
   /\ Len(ret.value.old_numbers) = Len(ret.value.new_numbers)
   /\ ret.value.old_numbers # <<>>) =>
    ret.value.impact =
      ClaimedNumericImpact(ret.value.old_numbers, ret.value.new_numbers)

(***************************************************************************)
(* C17: the impact of a version change                                     *)
(***************************************************************************)

\* The offset of the first digit of a version string.
FirstDigit(version) ==
  Min({k \in 1..Len(version) : version[k] \in Digits}) - 1

\* The end of the first group of digits of a version string.
MajorEnd(version) == FirstDigit(version) + DigitRun(version, FirstDigit(version))

\* The major component of a version string: its first group of digits.
MajorOf(version) ==
  DigitsValue(SubSeq(version, FirstDigit(version) + 1, MajorEnd(version)))

\* The minor component: the group of digits after the first "." if there is
\* one, else 0.
MinorOf(version) ==
  IF /\ MajorEnd(version) < Len(version)
     /\ version[MajorEnd(version) + 1] = "."
  THEN DigitsValue(SubSeq(version, MajorEnd(version) + 2,
                          MajorEnd(version) + 1
                            + DigitRun(version, MajorEnd(version) + 1)))
  ELSE 0

\* The impact the claim gives to a change of version.
ClaimedVersionImpact(old, new) ==
  IF MajorOf(new) > MajorOf(old) THEN "major"
  ELSE IF MinorOf(new) > MinorOf(old) THEN "moderate"
  ELSE "minor"

\* The end of the minor group of digits of a version string.
MinorEnd(version) ==
  MajorEnd(version) + 1 + DigitRun(version, MajorEnd(version) + 1)

\* A version string with a major and a minor component: two groups of digits
\* joined by ".", the second one followed by "." or by nothing.
TwoComponents(version) ==
  /\ MajorEnd(version) < Len(version)
  /\ version[MajorEnd(version) + 1] = "."
  /\ MinorEnd(version) > MajorEnd(version) + 1
  /\ MinorEnd(version) < Len(version) => version[MinorEnd(version) + 1] = "."

\* One version string with two components was extracted from each line.
OneVersionAssessed ==
  /\ ret.op = "assess_version_impact"
  /\ Len(ret.value.old_versions) = 1
  /\ Len(ret.value.new_versions) = 1
  /\ TwoComponents(ret.value.old_versions[1])
  /\ TwoComponents(ret.value.new_versions[1])

\* C17 as claimed: the impact of a version change is "major" when the major
\* component increased, else "moderate" when the minor component increased,
\* else "minor", for every version string the versions pattern extracts, a
\* "v", "version", "rev" or "revision" prefix included.
C17_Claim ==
  OneVersionAssessed =>
    ret.value.impact = ClaimedVersionImpact(ret.value.old_versions[1],
                                            ret.value.new_versions[1])

(***************************************************************************)
(* C18: the generic checks of the classifier                               *)
(***************************************************************************)

\* The classifier was called on two lines it accepts.
ClassifiedLines ==
  /\ ret.op = "analyze_universal_line_change"
  /\ Strip(OldLine) # <<>> /\ Strip(NewLine) # <<>>
  /\ Len(Strip(OldLine)) <= MaxLineLength
  /\ Len(Strip(NewLine)) <= MaxLineLength

\* What follows the number of a numbered item.
ItemRest(line) == SubSeq(line, Len(numbered_prefix(line)) + 1, Len(line))

\* The two lines are numbered items whose numbers differ.
Renumbered ==
  /\ is_numbered_item(Strip(OldLine)) /\ is_numbered_item(Strip(NewLine))
  /\ extract_number(Strip(OldLine)) # extract_number(Strip(NewLine))

\* A pure renumbering: numbered items that differ by their number only.
PureRenumbering ==
  Renumbered /\ ItemRest(Strip(OldLine)) = ItemRest(Strip(NewLine))

\* No pattern has matches in both lines that changed.
NoRecognizerMatch == detect_pattern_changes(Strip(OldLine), Strip(NewLine)) = None

\* The two lines are bullet items.
BulletItems == is_bullet_item(Strip(OldLine)) /\ is_bullet_item(Strip(NewLine))

\* The record has this type and this impact.
Yields(change, type, impact) ==
  change # None /\ change.type = type /\ change.impact = impact

\* C18 as claimed: two numbered items that differ by their leading number
\* yield a numbering_update of impact "none"; two bullet items with no
\* recognizer match yield a list_item_change of impact "minor"; any other
\* pair with no recognizer match yields a content_modification of impact
\* "moderate".
C18_Claim ==
  ClassifiedLines =>
    /\ PureRenumbering => Yields(ret.value.change, "numbering_update", "none")
    /\ (NoRecognizerMatch /\ ~Renumbered /\ BulletItems)
         => Yields(ret.value.change, "list_item_change", "minor")
    /\ (NoRecognizerMatch /\ ~Renumbered /\ ~BulletItems)
         => Yields(ret.value.change, "content_modification", "moderate")

(***************************************************************************)
(* C19: the shape of a change record                                       *)
(***************************************************************************)

\* The fields every change record carries.
RecordFields ==
  {"type", "description", "old_content", "new_content", "impact",
   "change_category"}

\* The types of change records.
ChangeTypes ==
  {"numeric_change", "version_change", "date_change", "url_change",
   "email_change", "line_addition", "line_deletion", "content_modification",
   "structural_move", "words_added", "words_removed", "numbering_update",
   "list_item_change"}

\* The impact tiers.
ImpactTiers == {"none", "minor", "moderate", "major"}

\* The types of the records of the pattern recognizers.
PatternTypes ==
  {"numeric_change", "version_change", "date_change", "url_change",
   "email_change"}

\* The values put into a description, in order.
FValues(description) ==
  [k \in 1..(Len(description) \div 2) |-> description[2 * k]]

\* The old and the new value of a record: the matches of its pattern when it
\* has them, else its trimmed contents.
OldValue(r) ==
  IF "old_values" \in DOMAIN r THEN JoinComma(r.old_values)
  ELSE Strip(r.old_content)

NewValue(r) ==
  IF "new_values" \in DOMAIN r THEN JoinComma(r.new_values)
  ELSE Strip(r.new_content)

\* The description has this value put into it.
Embeds(description, value) ==
  \E k \in 1..Len(FValues(description)) : FValues(description)[k] = value

\* The record has the six fields, a type and an impact of the enumerations.
WellFormedRecord(r) ==
  /\ RecordFields \subseteq DOMAIN r
  /\ r.type \in ChangeTypes
  /\ r.impact \in ImpactTiers

\* universal_analyze returned the analysis of two documents.
AnalysisReturned == UniversallyAnalyzed /\ Len(files) = 2

\* C19 as claimed: every record of real_changes carries the fields type,
\* description, old_content, new_content, impact and change_category, has a
\* type of the enumeration and an impact of none/minor/moderate/major, and
\* its description embeds both its old and its new value.
C19_Claim ==
  AnalysisReturned =>
    \A k \in 1..Len(Universal.real_changes) :
      /\ WellFormedRecord(Universal.real_changes[k])
      /\ Embeds(Universal.real_changes[k].description,
                OldValue(Universal.real_changes[k]))
      /\ Embeds(Universal.real_changes[k].description,
                NewValue(Universal.real_changes[k]))

\* The values the description of a record embeds: both lists of matches for
\* a record of a pattern recognizer, both trimmed lines for the
\* content_modification of a line pair the classifier rejected, the one line
\* for a line_addition or a line_deletion, the number of words for
\* words_added and words_removed, and nothing for the records of the generic
\* checks (list_item_change, "Line content modified").
EmbeddedValues(r) ==
  IF r.type \in PatternTypes
  THEN <<JoinComma(r.old_values), JoinComma(r.new_values)>>
  ELSE IF r.type = "content_modification"
          /\ r.change_category = "content_modification"
  THEN <<Strip(r.old_content), Strip(r.new_content)>>
  ELSE IF r.type = "line_addition" THEN <<Strip(r.new_content)>>
  ELSE IF r.type = "line_deletion" THEN <<Strip(r.old_content)>>
  ELSE IF r.type = "words_added"
  THEN <<Decimal(Cardinality(Range(SplitWS(Lower(files[2].content)))
                             \ Range(SplitWS(Lower(files[1].content)))))>>
  ELSE IF r.type = "words_removed"
  THEN <<Decimal(Cardinality(Range(SplitWS(Lower(files[1].content)))
                             \ Range(SplitWS(Lower(files[2].content)))))>>
  ELSE <<>>

\* C19 amended: every record of real_changes carries the six fields, a type
\* of the enumeration and an impact of the four tiers; its description
\* embeds both values only for the pattern records and the
\* content_modification of a rejected line pair, one line for an added or a
\* deleted line, a count of words in basic mode, and no value otherwise.
C19_Amended ==
  AnalysisReturned =>
    \A k \in 1..Len(Universal.real_changes) :
      /\ WellFormedRecord(Universal.real_changes[k])
      /\ FValues(Universal.real_changes[k].description)
           = EmbeddedValues(Universal.real_changes[k])

\* C19 witness: an analysis returned the record of a pattern recognizer, and
\* its description embeds both the old and the new matches.
C19_Witness ==
  /\ AnalysisReturned
  /\ \E k \in 1..Len(Universal.real_changes) :
       /\ Universal.real_changes[k].type \in PatternTypes
       /\ Embeds(Universal.real_changes[k].description,
                 OldValue(Universal.real_changes[k]))
       /\ Embeds(Universal.real_changes[k].description,
                 NewValue(Universal.real_changes[k]))

(***************************************************************************)
(* C20: the impact of the summary                                          *)
(***************************************************************************)

\* The impacts of the records of real_changes.
RecordImpacts ==
  {Universal.real_changes[k].impact : k \in 1..Len(Universal.real_changes)}

\* The highest tier among the impacts: major > moderate > minor > none.
DominantImpact(impacts) ==
  IF "major" \in impacts THEN "major"
  ELSE IF "moderate" \in impacts THEN "moderate"
  ELSE IF "minor" \in impacts THEN "minor"
  ELSE "none"

\* C20 as claimed: summary.change_impact is the highest impact tier of the
\* records of real_changes; with no record, or with records of impact "none"
\* only, it is not "minor" or higher.
C20_Claim ==
  AnalysisReturned =>
    IF DominantImpact(RecordImpacts) = "none"
    THEN ret.value.summary.change_impact \notin {"minor", "moderate", "major"}
    ELSE ret.value.summary.change_impact = DominantImpact(RecordImpacts)

(***************************************************************************)
(* C21: the categories of the summary                                      *)
(***************************************************************************)

\* The number of records of real_changes with this change_category.
CategoryCount(category) ==
  Len(SelectSeq(Universal.real_changes,
                LAMBDA r : r.change_category = category))

\* The number of times the summary lists this category.
ListedCount(category) ==
  Len(SelectSeq(ret.value.summary.change_categories,
                LAMBDA c : c = category))

\* The categories a record can carry.
Categories == {CategoryOrder[k] : k \in 1..Len(CategoryOrder)}

\* C21 as claimed: summary.change_categories gives, for each change_category
\* of real_changes, the number of real changes that carry it, and these
\* numbers sum to real_changes_count.
C21_Claim ==
  AnalysisReturned =>
    /\ \A category \in Categories :
         ListedCount(category) = CategoryCount(category)
    /\ Len(ret.value.summary.change_categories)
         = ret.value.summary.real_changes_count

(***************************************************************************)
(* The configuration object (models.py).  AnalysisConfig is a pydantic     *)
(* BaseModel declared without model_config: it is neither frozen nor       *)
(* validated on assignment, so an assignment to a field stores the value.  *)
(***************************************************************************)

\* The values a caller assigns to config.tolerance_percentage, in hundredths:
\* 0.0, 50.0 and 150.0.
AssignedTolerances == {0, 5000, 15000}

\* The texts registered with an analyzer whose configuration is assigned to.
ConfigTexts ==
  { <<"a", " ", "b">>, <<"a", " ", "c">>, <<"c", " ", "d">> }

\* FileDiffAnalyzer.add_text
AddConfigText ==
  /\ Len(files) < 2
  /\ \E text \in ConfigTexts :
       files' = Append(files, FileInfo("text_segment", text))
  /\ ret' = Returned("add_text")
  /\ UNCHANGED <<config, s3vars>>

\* analyzer.config.tolerance_percentage = value
AssignTolerance ==
  /\ \E value \in AssignedTolerances :
       config' = [config EXCEPT !.tolerance_percentage = value]
  /\ ret' = Returned("setattr")
  /\ UNCHANGED <<files, s3vars>>

NextConfig == AddConfigText \/ AssignTolerance \/ Analyze

SpecConfig == Init /\ [][NextConfig]_vars

(***************************************************************************)
(* C22: the configuration is immutable                                     *)
(***************************************************************************)

\* C22 as claimed: no step changes the configuration of an analyzer, an
\* assignment to one of its fields raises an error, and the tolerance stays
\* within 0..100.
C22_Claim ==
  [][/\ config' = config
     /\ ret'.op = "setattr" => ret'.raised # "none"
     /\ config'.tolerance_percentage \in 0..10000]_vars

(***************************************************************************)
(* C23: universal_analyze keeps no state                                   *)
(***************************************************************************)

MaxPaths == 4

\* The values download_config.max_retries is configured with.
RetryValues == 0..DefaultMaxRetries

\* What boto3 does at each attempt of one download.
AttemptOutcomes == [1..DefaultMaxRetries -> {"ok", "fail"}]

\* for attempt in range(max_retries): the loop from this attempt on.  It
\* ends by the break of a successful attempt, by the raise of the last
\* attempt, or because the range is exhausted.
RECURSIVE retry_loop(_, _, _)
retry_loop(retries, outcomes, attempt) ==
  IF attempt >= retries
  THEN [attempts |-> attempt, raised |-> "none"]
  ELSE IF outcomes[attempt + 1] = "ok"
  THEN [attempts |-> attempt + 1, raised |-> "none"]
  ELSE IF attempt = retries - 1
  THEN [attempts |-> attempt + 1, raised |-> "Exception"]
  ELSE retry_loop(retries, outcomes, attempt + 1)

\* S3Client.download_file of an object that get_file_info finds or not, into
\* the temporary file path: attempts are the outcomes of the attempts made,
\* written tells whether the object was written to the path, and existing
\* the temporary files on the disk afterwards.
download_file(found, retries, outcomes, path, existing) ==
  IF ~found
  THEN [raised |-> "FileNotFoundError", attempts |-> <<>>, written |-> FALSE,
        existing |-> existing]
  ELSE
    Bind(retry_loop(retries, outcomes, 0), LAMBDA loop :
      IF loop.raised = "none"
      THEN [raised |-> "none",
            attempts |-> [k \in 1..loop.attempts |-> outcomes[k]],
            written |-> loop.attempts > 0,
            existing |-> existing \cup {path}]
      ELSE [raised |-> "Exception",
            attempts |-> [k \in 1..loop.attempts |-> outcomes[k]],
            written |-> FALSE,
            existing |-> existing \ {path}])

\* An S3 client whose download configuration has any of the retry values.
InitS3 ==
  /\ files = <<>>
  /\ config = AnalysisConfig(3000, FALSE, TRUE)
  /\ ret = Returned("init")
  /\ temp_files = <<>>
  /\ local_paths = {}
  /\ next_path = 1
  /\ max_retries \in RetryValues

\* S3Client.download_file.  The steps of the result are the attempts made
\* and its value the local path returned.
DownloadFile ==
  /\ next_path <= MaxPaths
  /\ \E found \in BOOLEAN, outcomes \in AttemptOutcomes :
       Bind(download_file(found, max_retries, outcomes, next_path,
                          local_paths), LAMBDA download :
         /\ ret' = [op |-> "download_file",
                    raised |-> download.raised,
                    calls |-> <<>>,
                    steps |-> download.attempts,
                    value |-> IF download.raised = "none"
                              THEN [local_path |-> next_path] ELSE <<>>]
         /\ local_paths' = download.existing
         /\ next_path' = IF found THEN next_path + 1 ELSE next_path)
  /\ UNCHANGED <<files, config, temp_files, max_retries>>

(***************************************************************************)
(* The S3 analyzer (s3_analyzer.py).  It owns one universal analyzer, whose *)
(* registered documents are the variable files.                            *)
(***************************************************************************)

\* The objects of the bucket: key, type, and the text the extractor reads
\* from a local copy.
S3Objects ==
  { [s3_key |-> "a.txt", file_type |-> "txt", text |-> <<"a", " ", "b">>],
    [s3_key |-> "b.txt", file_type |-> "txt", text |-> <<"a", " ", "c">>],
    [s3_key |-> "c.txt", file_type |-> "txt", text |-> <<"c", " ", "d">>] }

\* The call of a request that fails, if any: a metadata lookup or a text
\* extraction, of the left or of the right file.
Faults == {"ok", "left", "right"}

\* The outcomes of the attempts of a download in a comparison: all of them
\* succeed or all fail.
DownloadOutcomes ==
  { [k \in 1..DefaultMaxRetries |-> "ok"],
    [k \in 1..DefaultMaxRetries |-> "fail"] }

\* One call made by compare_s3_files and how it ended.
Made(call, outcome) == [call |-> call, outcome |-> outcome]

\* The except branch of compare_s3_files: the error result.
error_result(request, error_type) ==
  [left_file |-> request.left.s3_key,
   right_file |-> request.right.s3_key,
   comparison_result |-> [error_type |-> error_type],
   download_status |-> "error"]

\* The "basic_analysis" dict of compare_s3_files.
s3_basic_analysis(first) ==
  [similarity_percentage |-> first.similarity_percentage,
   difference_percentage |-> first.difference_percentage,
   is_significantly_different |-> first.is_significantly_different,
   common_words |-> first.common_words,
   unique_words_file1 |-> first.unique_words_file1,
   unique_words_file2 |-> first.unique_words_file2]

\* TextExtractor.get_file_info of the local copy of an object: its text when
\* the download wrote it, the empty text of the empty temporary file
\* otherwise.
local_file(object, download) ==
  FileInfo(object.file_type, IF download.written THEN object.text ELSE <<>>)

\* How a download ended.
download_outcome(download) ==
  IF download.raised # "none" THEN "raised"
  ELSE IF download.written THEN "written" ELSE "empty"

\* compare_s3_files from the analysis on: the two local copies are
\* registered after the documents already there, then analyze and
\* universal_analyze run on all the registered documents.
s3_analysis(fs, cfg, request, calls) ==
  Bind(analyze(fs, cfg), LAMBDA basic_result :
  Bind(universal_analyze(fs, cfg), LAMBDA universal_result :
    IF universal_result.raised # "none"
    THEN [calls |-> calls \o <<Made("analyze", "returned"),
                               Made("universal_analyze", "raised")>>,
          value |-> error_result(request, universal_result.raised)]
    ELSE [calls |-> calls \o <<Made("analyze", "returned"),
                               Made("universal_analyze", "returned")>>,
          value |->
            [left_file |-> request.left.s3_key,
             right_file |-> request.right.s3_key,
             comparison_result |->
               [basic_analysis |->
                  s3_basic_analysis(basic_result.value.comparison_matrix[1]),
                universal_analysis |-> universal_result.value],
             download_status |-> "success"]]))

\* S3FileDiffAnalyzer.compare_s3_files: the documents registered, the
\* temporary files tracked and existing, the calls made and the result.
compare_s3_files(fs, cfg, request, lookup, left_outcomes, right_outcomes, extract, retries, path, tracked, existing) ==
  IF lookup = "left"
  THEN [files |-> fs, temp_files |-> tracked, local_paths |-> existing,
        next_path |-> path,
        calls |-> <<Made("get_file_info", "raised")>>,
        value |-> error_result(request, "FileNotFoundError")]
  ELSE IF lookup = "right"
  THEN [files |-> fs, temp_files |-> tracked, local_paths |-> existing,
        next_path |-> path,
        calls |-> <<Made("get_file_info", "returned"),
                    Made("get_file_info", "raised")>>,
        value |-> error_result(request, "FileNotFoundError")]
  ELSE
    Bind(download_file(TRUE, retries, left_outcomes, path, existing),
         LAMBDA left :
    Bind(<<Made("get_file_info", "returned"), Made("get_file_info", "returned"),
           Made("download_file", download_outcome(left))>>, LAMBDA calls1 :
      IF left.raised # "none"
      THEN [files |-> fs, temp_files |-> tracked,
            local_paths |-> left.existing, next_path |-> path + 1,
            calls |-> calls1,
            value |-> error_result(request, "Exception")]
      ELSE
        Bind(download_file(TRUE, retries, right_outcomes, path + 1,
                           left.existing), LAMBDA right :
        Bind(calls1 \o <<Made("download_file", download_outcome(right))>>,
             LAMBDA calls2 :
          IF right.raised # "none"
          THEN [files |-> fs, temp_files |-> tracked,
                local_paths |-> right.existing, next_path |-> path + 2,
                calls |-> calls2,
                value |-> error_result(request, "Exception")]
          ELSE IF extract = "left"
          THEN [files |-> fs,
                temp_files |-> tracked \o <<path, path + 1>>,
                local_paths |-> right.existing, next_path |-> path + 2,
                calls |-> calls2 \o <<Made("add_file", "raised")>>,
                value |-> error_result(request, "RuntimeError")]
          ELSE IF extract = "right"
          THEN [files |-> fs \o <<local_file(request.left, left)>>,
                temp_files |-> tracked \o <<path, path + 1>>,
                local_paths |-> right.existing, next_path |-> path + 2,
                calls |-> calls2 \o <<Made("add_file", "returned"),
                                      Made("add_file", "raised")>>,
                value |-> error_result(request, "RuntimeError")]
          ELSE
            Bind(fs \o <<local_file(request.left, left),
                         local_file(request.right, right)>>, LAMBDA fs2 :
            Bind(s3_analysis(fs2, cfg, request,
                             calls2 \o <<Made("add_file", "returned"),
                                         Made("add_file", "returned")>>),
                 LAMBDA analysis :
              [files |-> fs2,
               temp_files |-> tracked \o <<path, path + 1>>,
               local_paths |-> right.existing, next_path |-> path + 2,
               calls |-> analysis.calls,
               value |-> analysis.value]))))))

\* S3FileDiffAnalyzer.compare_s3_files
CompareS3Files ==
  /\ next_path + 1 <= MaxPaths
  /\ \E left \in S3Objects, right \in S3Objects,
        lookup \in Faults, extract \in Faults,
        left_outcomes \in DownloadOutcomes,
        right_outcomes \in DownloadOutcomes :
       Bind(compare_s3_files(files, config,
                             [left |-> left, right |-> right], lookup,
                             left_outcomes, right_outcomes, extract,
                             max_retries, next_path, temp_files,
                             local_paths), LAMBDA compared :
         /\ files' = compared.files
         /\ temp_files' = compared.temp_files
         /\ local_paths' = compared.local_paths
         /\ next_path' = compared.next_path
         /\ ret' = [op |-> "compare_s3_files", raised |-> "none",
                    calls |-> compared.calls, steps |-> <<>>,
                    value |-> compared.value])
  /\ UNCHANGED <<config, max_retries>>

\* S3FileDiffAnalyzer.cleanup: the tracked temporary files are deleted.
Cleanup ==
  /\ local_paths' = local_paths \ Range(temp_files)
  /\ temp_files' = <<>>
  /\ ret' = Returned("cleanup")
  /\ UNCHANGED <<files, config, next_path, max_retries>>

NextS3 == DownloadFile \/ CompareS3Files \/ Cleanup

SpecS3 == InitS3 /\ [][NextS3]_vars

(***************************************************************************)
(* C28: the attempts of a download                                         *)
(***************************************************************************)

\* download_file was called for an object that exists.
Downloaded == ret.op = "download_file" /\ ret.raised # "FileNotFoundError"

\* The outcomes of the attempts the call made.
Attempts == ret.steps

\* The temporary file the call created.
DownloadPath == next_path - 1

\* C28 as claimed: download_file makes at most max_retries attempts, makes
\* none after a successful one, returns a local path only when an attempt
\* succeeded, and when every attempt failed it raises and the temporary file
\* is gone; for every max_retries, 0 included.
C28_Claim ==
  Downloaded =>
    /\ Len(Attempts) <= max_retries
    /\ \A k \in 1..(Len(Attempts) - 1) : Attempts[k] = "fail"
    /\ ret.raised = "none" => \E k \in 1..Len(Attempts) : Attempts[k] = "ok"
    /\ (\A k \in 1..Len(Attempts) : Attempts[k] = "fail") =>
         /\ ret.raised # "none"
         /\ DownloadPath \notin local_paths

(***************************************************************************)
(* C24: a comparison reports its own two files                             *)
(***************************************************************************)

\* The object of a key.
ObjectOf(s3_key) == CHOOSE object \in S3Objects : object.s3_key = s3_key

\* compare_s3_files returned, and its metadata lookups, its downloads and its
\* text extractions all succeeded.
ComparedWithSuccess ==
  /\ ret.op = "compare_s3_files"
  /\ Len(ret.calls) >= 6
  /\ \A k \in 1..6 : ret.calls[k].outcome \in {"returned", "written"}

\* The left and the right document of the request, as extracted.
RequestFiles ==
  <<FileInfo(ObjectOf(ret.value.left_file).file_type,
             ObjectOf(ret.value.left_file).text),
    FileInfo(ObjectOf(ret.value.right_file).file_type,
             ObjectOf(ret.value.right_file).text)>>

\* C24 as claimed: a compare_s3_files call whose lookups, downloads and
\* extractions succeed returns, whatever the calls made before on the same
\* analyzer, the basic and the universal analysis of the left and the right
\* file of its own request, and no error result.
C24_Claim ==
  ComparedWithSuccess =>
    /\ "error_type" \notin DOMAIN ret.value.comparison_result
    /\ ret.value.comparison_result.basic_analysis
         = s3_basic_analysis(
             analyze(RequestFiles, config).value.comparison_matrix[1])
    /\ ret.value.comparison_result.universal_analysis
         = universal_analyze(RequestFiles, config).value

(***************************************************************************)
(* Block segmentation and block matching (universal_analyzer.py)           *)
(***************************************************************************)

\* line.isupper(): some cased character, and no lower-case one.
IsUpper(line) ==
  /\ \E k \in 1..Len(line) : line[k] \in UpperLetters
  /\ \A k \in 1..Len(line) : line[k] \notin LowerLetters

\* line.count(c)
Count(line, c) == Cardinality({k \in 1..Len(line) : line[k] = c})

\* re.match(r'^#{1,6}\s', line)
matches_heading(line) ==
  Bind(RunIn(line, 0, {"#"}), LAMBDA n :
    n \in 1..6 /\ n < Len(line) /\ IsSpace(line[n + 1]))

\* re.match(r'^\d+[\.\)]\s', line) with closers ".", ")" and
\* re.match(r'^\d+\.\s', line) with the closer "." only.
matches_numbering(line, closers) ==
  Bind(DigitRun(line, 0), LAMBDA n :
    /\ n > 0
    /\ n + 1 < Len(line)
    /\ line[n + 1] \in closers
    /\ IsSpace(line[n + 2]))

\* re.match(r'^[-*+]\s', line) with the markers "-", "*", "+" and
\* re.match(r'^>\s', line) with the marker ">".
matches_marker(line, markers) ==
  Len(line) >= 2 /\ line[1] \in markers /\ IsSpace(line[2])

\* UniversalFileDiffAnalyzer._detect_block_type
detect_block_type(line) ==
  IF matches_heading(line) THEN "header"
  ELSE IF matches_numbering(line, {".", ")"}) THEN "header"
  ELSE IF IsUpper(line) /\ Len(line) < 100 THEN "header"
  ELSE IF matches_marker(line, {"-", "*", "+"}) THEN "list"
  ELSE IF matches_numbering(line, {"."}) THEN "list"
  ELSE IF \/ RunIn(line, 0, SpaceChars) >= 4
          \/ Count(line, "|") > 0 /\ Count(line, "|") > 2
  THEN "code"
  ELSE IF matches_marker(line, {">"}) THEN "quote"
  ELSE "text"

\* The dict _segment_blocks appends for the lines of the current block.
Block(current_type, current_block) ==
  [type |-> IF current_type = "None" THEN "text" ELSE current_type,
   content |-> JoinNL(current_block),
   lines |-> current_block]

\* The loop without the end of the current block at a line of another type.
RECURSIVE segment_from_joined(_, _, _, _, _)
segment_from_joined(lines, k, blocks, current_block, current_type) ==
  IF k > Len(lines)
  THEN IF current_block # <<>>
       THEN Append(blocks, Block(current_type, current_block))
       ELSE blocks
  ELSE IF Strip(lines[k]) = <<>>
  THEN IF current_block # <<>>
       THEN segment_from_joined(lines, k + 1,
                                Append(blocks,
                                       Block(current_type, current_block)),
                                <<>>, "None")
       ELSE segment_from_joined(lines, k + 1, blocks, current_block,
                                current_type)
  ELSE segment_from_joined(lines, k + 1, blocks,
                           Append(current_block, lines[k]),
                           detect_block_type(lines[k]))

\* The loop of _segment_blocks from the k-th line on, and the flush of the
\* last block after it.
RECURSIVE segment_from(_, _, _, _, _)
segment_from(lines, k, blocks, current_block, current_type) ==
  IF k > Len(lines)
  THEN IF current_block # <<>>
       THEN Append(blocks, Block(current_type, current_block))
       ELSE blocks
  ELSE IF Strip(lines[k]) = <<>>
  THEN IF current_block # <<>>
       THEN segment_from(lines, k + 1,
                         Append(blocks, Block(current_type, current_block)),
                         <<>>, "None")
       ELSE segment_from(lines, k + 1, blocks, current_block, current_type)
  ELSE
    Bind(detect_block_type(lines[k]), LAMBDA block_type :
      IF block_type # current_type /\ current_block # <<>>
      THEN segment_from(lines, k + 1,
                        Append(blocks, Block(current_type, current_block)),
                        <<lines[k]>>, block_type)
      ELSE segment_from(lines, k + 1, blocks,
                        Append(current_block, lines[k]), block_type))

\* UniversalFileDiffAnalyzer._segment_blocks
segment_blocks(text) == segment_from(SplitNL(text), 1, <<>>, <<>>, "None")

\* re.findall(r'\w+', s) from offset p on: the maximal runs of word
\* characters.
RECURSIVE word_runs(_, _)
word_runs(s, p) ==
  IF p >= Len(s) THEN <<>>
  ELSE Bind(RunIn(s, p, WordChars), LAMBDA n :
         IF n = 0 THEN word_runs(s, p + 1)
         ELSE <<SubSeq(s, p + 1, p + n)>> \o word_runs(s, p + n))

\* set(re.findall(r'\w+', block['content'].lower()))
block_words(block) == Range(word_runs(Lower(block.content), 0))

\* A similarity, kept as the exact fraction num/den.
Ratio(num, den) == [num |-> num, den |-> den]

\* The acceptance threshold of a match, 0.6.
MatchThreshold == Ratio(3, 5)

\* x > y and x >= y for two fractions.
Above(x, y) == x.num * y.den > y.num * x.den

AtLeast(x, y) == x.num * y.den >= y.num * x.den

\* UniversalFileDiffAnalyzer._calculate_block_similarity
calculate_block_similarity(block1, block2) ==
  Bind(block_words(block1), LAMBDA words1 :
  Bind(block_words(block2), LAMBDA words2 :
    IF words1 = {} \/ words2 = {} THEN Ratio(0, 1)
    ELSE Ratio(Cardinality(words1 \cap words2),
               Cardinality(words1 \cup words2))))

\* The values of the matches made so far: matches.values().
Matched(matches) == {pair[2] : pair \in matches}

\* The inner loop without the test of the blocks already matched.
RECURSIVE best_match_any(_, _, _, _, _, _)
best_match_any(block1, blocks2, matches, j, best_match, best_similarity) ==
  IF j >= Len(blocks2) THEN best_match
  ELSE
    Bind(calculate_block_similarity(block1, blocks2[j + 1]),
         LAMBDA similarity :
      IF Above(similarity, best_similarity)
         /\ AtLeast(similarity, MatchThreshold)
      THEN best_match_any(block1, blocks2, matches, j + 1, j, similarity)
      ELSE best_match_any(block1, blocks2, matches, j + 1, best_match,
                          best_similarity))

\* The inner loop of _greedy_match_by_signature from the block j of blocks2
\* on: the best match of block1 among the blocks not matched yet, or -1.
RECURSIVE best_match_from(_, _, _, _, _, _)
best_match_from(block1, blocks2, matches, j, best_match, best_similarity) ==
  IF j >= Len(blocks2) THEN best_match
  ELSE IF j \in Matched(matches)
  THEN best_match_from(block1, blocks2, matches, j + 1, best_match,
                       best_similarity)
  ELSE
    Bind(calculate_block_similarity(block1, blocks2[j + 1]),
         LAMBDA similarity :
      IF Above(similarity, best_similarity)
         /\ AtLeast(similarity, MatchThreshold)
      THEN best_match_from(block1, blocks2, matches, j + 1, j, similarity)
      ELSE best_match_from(block1, blocks2, matches, j + 1, best_match,
                           best_similarity))

\* The outer loop of _greedy_match_by_signature from the block i of blocks1
\* on; matches is the dict so far, as the set of its items <<i, j>>.
RECURSIVE greedy_from(_, _, _, _)
greedy_from(blocks1, blocks2, i, matches) ==
  IF i >= Len(blocks1) THEN matches
  ELSE
    Bind(best_match_from(blocks1[i + 1], blocks2, matches, 0, -1, Ratio(0, 1)),
         LAMBDA best_match :
      greedy_from(blocks1, blocks2, i + 1,
                  IF best_match # -1
                  THEN matches \cup {<<i, best_match>>}
                  ELSE matches))

\* UniversalFileDiffAnalyzer._greedy_match_by_signature
greedy_match_by_signature(blocks1, blocks2) ==
  greedy_from(blocks1, blocks2, 0, {})

\* The most lines of a segmented text, and the most blocks of a matched
\* document.
MaxSegmentLines == 3

MaxMatchBlocks == 2

\* The lines the segmented texts are made of: a heading, an upper-case line,
\* a list item, an indented line, a quote, a plain line, an empty line and a
\* line of one space.
SegmentLines ==
  { <<"#", " ", "h">>,
    <<"A", "B">>,
    <<"-", " ", "a">>,
    <<" ", " ", " ", " ", "x">>,
    <<">", " ", "q">>,
    <<"a", " ", "b", " ", "c">>,
    <<>>,
    <<" ">> }

\* The texts _segment_blocks is called with.
SegmentTexts ==
  { JoinNL(lines) :
      lines \in UNION { [1..n -> SegmentLines] : n \in 1..MaxSegmentLines } }

\* The one-line blocks the matched documents are made of: three words, the
\* same with two more (3/5 of the words shared), a line sharing one word of
\* four, and a line without a word.
MatchLines ==
  { <<"a", " ", "b", " ", "c">>,
    <<"a", " ", "b", " ", "c", " ", "d", " ", "e">>,
    <<"a", " ", "x">>,
    <<"!">> }

\* A document from its one-line blocks, an empty line between two blocks.
RECURSIVE MatchText(_)
MatchText(blocks) ==
  IF Len(blocks) = 1 THEN blocks[1]
  ELSE blocks[1] \o <<"\n", "\n">> \o MatchText(Tail(blocks))

\* The documents whose blocks are matched.
MatchTexts ==
  { MatchText(blocks) :
      blocks \in UNION { [1..n -> MatchLines] : n \in 1..MaxMatchBlocks } }

\* The texts registered after the documents fs: a document to match is
\* followed by another one.
BlockTextsAfter(fs) ==
  IF fs = <<>> THEN SegmentTexts \cup MatchTexts
  ELSE IF fs[1].content \in MatchTexts THEN MatchTexts
  ELSE {}

\* FileDiffAnalyzer.add_text
AddBlockText ==
  /\ Len(files) < 2
  /\ \E text \in BlockTextsAfter(files) :
       files' = Append(files, FileInfo("text_segment", text))
  /\ ret' = Returned("add_text")
  /\ UNCHANGED <<config, s3vars>>

\* UniversalFileDiffAnalyzer._segment_blocks of the registered document.
SegmentBlocks ==
  /\ Len(files) = 1
  /\ ret' = Called("segment_blocks",
                   [blocks |-> segment_blocks(files[1].content)])
  /\ UNCHANGED <<files, config, s3vars>>

\* UniversalFileDiffAnalyzer._greedy_match_by_signature of the blocks of the
\* two registered documents.
GreedyMatchBySignature ==
  /\ Len(files) = 2
  /\ Bind(segment_blocks(files[1].content), LAMBDA blocks1 :
     Bind(segment_blocks(files[2].content), LAMBDA blocks2 :
       ret' = Called("greedy_match_by_signature",
                     [blocks1 |-> blocks1,
                      blocks2 |-> blocks2,
                      matches |->
                        greedy_match_by_signature(blocks1, blocks2)])))
  /\ UNCHANGED <<files, config, s3vars>>

NextBlocks == AddBlockText \/ SegmentBlocks \/ GreedyMatchBySignature

SpecBlocks == InitLines /\ [][NextBlocks]_vars

(***************************************************************************)
(* C25: the matches of the block matcher                                   *)
(***************************************************************************)

\* The block matcher has returned.
BlocksMatched == ret.op = "greedy_match_by_signature"

BlocksA == ret.value.blocks1

BlocksB == ret.value.blocks2

Matches == ret.value.matches

\* The Jaccard similarity of the word sets of block i of A and block j of B:
\* |intersection| / |union|, and 0 when there is no word at all.
Jaccard(i, j) ==
  IF block_words(BlocksA[i + 1]) \cup block_words(BlocksB[j + 1]) = {}
  THEN Ratio(0, 1)
  ELSE Ratio(Cardinality(block_words(BlocksA[i + 1])
                         \cap block_words(BlocksB[j + 1])),
             Cardinality(block_words(BlocksA[i + 1])
                         \cup block_words(BlocksB[j + 1])))

\* The blocks of B that no block of A before block i is matched with and
\* whose similarity with block i reaches the threshold.
Candidates(i) ==
  { j \in 0..(Len(BlocksB) - 1) :
      /\ \A pair \in Matches : pair[1] < i => pair[2] # j
      /\ AtLeast(Jaccard(i, j), Ratio(3, 5)) }

\* The first of the candidates of block i with the greatest similarity.
BestCandidate(i) ==
  Min({ j \in Candidates(i) :
          \A other \in Candidates(i) : AtLeast(Jaccard(i, j), Jaccard(i, other)) })

\* C25: the matches are an injective partial mapping from the blocks of A to
\* the blocks of B; every matched pair has a Jaccard similarity of 0.6 at
\* least; and each block of A, in order, is matched with the first of the
\* most similar blocks of B not matched before it, or with none when no such
\* block reaches 0.6.
C25_GreedyMatches ==
  BlocksMatched =>
    /\ \A pair \in Matches :
         /\ pair[1] \in 0..(Len(BlocksA) - 1)
         /\ pair[2] \in 0..(Len(BlocksB) - 1)
         /\ AtLeast(Jaccard(pair[1], pair[2]), Ratio(3, 5))
    /\ \A pair \in Matches, other \in Matches :
         (pair[1] = other[1] \/ pair[2] = other[2]) => pair = other
    /\ \A i \in 0..(Len(BlocksA) - 1) :
         IF Candidates(i) = {}
         THEN \A pair \in Matches : pair[1] # i
         ELSE <<i, BestCandidate(i)>> \in Matches

\* C25 witness: a block of A took a block of B that a later block of A is
\* more similar to, and the later block is left unmatched.
C25_Witness ==
  /\ BlocksMatched
  /\ \E pair \in Matches :
       \E i \in (pair[1] + 1)..(Len(BlocksA) - 1) :
         /\ Above(Jaccard(i, pair[2]), Jaccard(pair[1], pair[2]))
         /\ \A other \in Matches : other[1] # i

(***************************************************************************)
(* C26: the blocks of the segmentation                                     *)
(***************************************************************************)

\* _segment_blocks has returned the blocks of the registered document.
Segmented == ret.op = "segment_blocks" /\ Len(files) = 1

SegmentedBlocks == ret.value.blocks

\* The lines of the segmented text.
TextLines == SplitNL(files[1].content)

\* The positions of the lines of the text that are not blank.
NonBlankPositions ==
  { k \in 1..Len(TextLines) :
      \E p \in 1..Len(TextLines[k]) : ~IsSpace(TextLines[k][p]) }

\* The position in the text of the n-th line that is not blank.
PositionOf(n) ==
  CHOOSE k \in NonBlankPositions :
    Cardinality({m \in NonBlankPositions : m <= k}) = n

\* The lines of the first b blocks, one after the other.
LinesUpTo(b) == Concat([c \in 1..b |-> SegmentedBlocks[c].lines])

\* C26: every block has a line at least; all the lines of a block have the
\* classification that is the type of the block; the lines of the blocks,
\* one block after the other, are the lines of the text that are not blank,
\* in order; and two adjacent blocks differ in type or have a blank line of
\* the text between them.
C26_Segmentation ==
  Segmented =>
    /\ \A b \in 1..Len(SegmentedBlocks) :
         /\ SegmentedBlocks[b].lines # <<>>
         /\ \A n \in 1..Len(SegmentedBlocks[b].lines) :
              detect_block_type(SegmentedBlocks[b].lines[n])
                = SegmentedBlocks[b].type
    /\ Len(LinesUpTo(Len(SegmentedBlocks))) = Cardinality(NonBlankPositions)
    /\ \A n \in 1..Cardinality(NonBlankPositions) :
         LinesUpTo(Len(SegmentedBlocks))[n] = TextLines[PositionOf(n)]
    /\ \A b \in 1..(Len(SegmentedBlocks) - 1) :
         \/ SegmentedBlocks[b].type # SegmentedBlocks[b + 1].type
         \/ PositionOf(Len(LinesUpTo(b)) + 1)
              > PositionOf(Len(LinesUpTo(b))) + 1

\* C26 witness: a text of three lines that are not blank is segmented into a
\* block of two lines and a block of another type.
C26_Witness ==
  /\ Segmented
  /\ Cardinality(NonBlankPositions) = 3
  /\ Len(SegmentedBlocks) = 2
  /\ Len(SegmentedBlocks[1].lines) = 2
  /\ SegmentedBlocks[1].type # SegmentedBlocks[2].type

(***************************************************************************)
(* The alignment of two line sequences on its own                          *)
(***************************************************************************)

MaxAlignLines == 4

\* The lines the aligned documents are made of.
AlignLines == { <<"x">>, <<"y">>, <<"z">> }

\* The documents whose lines are aligned.
AlignTexts ==
  { JoinNL(lines) :
      lines \in UNION { [1..n -> AlignLines] : n \in 1..MaxAlignLines } }

\* FileDiffAnalyzer.add_text
AddAlignText ==
  /\ Len(files) < 2
  /\ \E text \in AlignTexts :
       files' = Append(files, FileInfo("text_segment", text))
  /\ ret' = Returned("add_text")
  /\ UNCHANGED <<config, s3vars>>

\* The alignment of _detailed_line_analysis: the opcodes of the lines of the
\* two registered documents.
GetOpcodes ==
  /\ Len(files) = 2
  /\ ret' = Called("get_opcodes",
                   [opcodes |-> get_opcodes(SplitNL(files[1].content),
                                            SplitNL(files[2].content))])
  /\ UNCHANGED <<files, config, s3vars>>

NextAlign == AddAlignText \/ GetOpcodes

SpecAlign == InitLines /\ [][NextAlign]_vars

(***************************************************************************)
(* C27: the unchanged lines of the alignment                               *)
(***************************************************************************)

\* The alignment of the two registered documents has returned.
Aligned == ret.op = "get_opcodes" /\ Len(files) = 2

\* The number of lines the equal opcodes cover.
RECURSIVE EqualLines(_)
EqualLines(ops) ==
  IF ops = <<>> THEN 0
  ELSE (IF Head(ops).tag = "equal" THEN Head(ops).i2 - Head(ops).i1 ELSE 0)
       + EqualLines(Tail(ops))

\* The length of a longest common subsequence of a[1..i] and b[1..j].
RECURSIVE LcsLength(_, _, _, _)
LcsLength(a, b, i, j) ==
  IF i = 0 \/ j = 0 THEN 0
  ELSE IF a[i] = b[j] THEN LcsLength(a, b, i - 1, j - 1) + 1
  ELSE Max({LcsLength(a, b, i - 1, j), LcsLength(a, b, i, j - 1)})

\* C27: the lines covered by the equal opcodes of the alignment are as many
\* as the lines of a longest common subsequence of the two line sequences:
\* no alignment has more unchanged lines.
C27_Claim ==
  Aligned =>
    EqualLines(ret.value.opcodes)
      = LcsLength(Lines1, Lines2, Len(Lines1), Len(Lines2))

(***************************************************************************)
(* C29: what the coarse comparison depends on                              *)
(***************************************************************************)

\* The format tags of a document: a PDF or not.
FormatTags == {"pdf", "txt"}

\* The comparison of the first two registered texts, had they the format
\* tags tag1 and tag2 and were ignore_whitespace set to whitespace.
ComparedAs(tag1, tag2, whitespace) ==
  compare_files(FileInfo(tag1, files[1].content),
                FileInfo(tag2, files[2].content),
                [config EXCEPT !.ignore_whitespace = whitespace])

C30_Claim ==
  (AnalysisReturned /\ ret.value.basic_analysis.is_significantly_different) =>
    /\ Universal.real_changes # <<>>
    /\ ret.value.summary.overall_assessment
         # "No significant changes detected"

\* The same for the analyzers that are not case-sensitive.
C30_CaseInsensitive == config.case_sensitive \/ C30_Claim

====
